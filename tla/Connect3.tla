------------------------------ MODULE Connect3 ------------------------------
(***************************************************************************)
(* A Connect 3 entry (connect3/): two selectable channels of one device    *)
(* that accepts one reader.  The hub (hub.py, channel2.py) grants a claim  *)
(* to one LiveMedia (live.py), which counts leases and runs one QVSession  *)
(* (session.py).  On that session ride the explicit outputs (control.py),  *)
(* the microphone with a socket of its own (talk.py, talk_route.py), the   *)
(* photo of a ring (ring_snapshot.py) and the passive observation          *)
(* (doorbell.py); CGI reads and the alarm diagnostic (ring_listener.py)    *)
(* exclude it.  A trust failure closes it, and so does an unload.          *)
(*                                                                         *)
(* Everything runs on one event loop: an action is what happens between    *)
(* two awaits, and asyncio locks are held over awaits only where `lock`    *)
(* says so.                                                                *)
(***************************************************************************)
EXTENDS Integers, Sequences, FiniteSets

CONSTANTS
  Viewers,     \* who may watch and speak
  MaxStimuli   \* bound: what comes from outside

ASSUME Connect3Assumption ==
  /\ MaxStimuli \in Nat
  /\ Viewers \cap {"action", "photo", "none"} = {}

Channels == {1, 2}
Owners == Viewers \cup {"action", "photo"}
None == "none"

VARIABLES
  stimuli,
  \* Connect3Hub
  unload,      \* how far hub.stop is
  blocked,     \* _tls_blocked_reason is set
  trusted,     \* the approved certificate still holds
  config,      \* version of entry.data
  granted,     \* whether that version enables the outputs, and the second microphone
  claim,       \* _media_claim: a channel, or 0
  \* LiveMedia of each channel
  consumers, lock,
  stopper,     \* its stop(): asked, halting, then closing the listeners
  run,         \* how far _run is
  sid,         \* its session, 0 for none
  connected, ready,
  sessions,    \* how many sessions there were
  \* owners of leases
  at, on,      \* where each is, and on which channel
  \* Connect3OutputController and the output state of the session
  phase,       \* idle, busy, sending, waiting, over
  cancelled,   \* the task of the action was cancelled
  action,      \* how many there were; the last one is the current one
  outSid, outConfig,
  future,      \* the reply it got (the action it answers), 0 pending, -1 none
  attempted, uncertain,
  \* the wire of each session
  unanswered,  \* outputs written whose reply was not received
  replies,     \* what the device has sent
  \* Talkback of each channel
  talk, speaker, talkSid, wanted,
  \* what excludes media, and what observes it
  read, diag, diagConfig, watch

hubVars == <<unload, blocked, trusted, config, granted>>
liveVars == <<claim, consumers, lock, stopper, run, sid, connected, ready, sessions>>
leaseVars == <<at, on>>
outVars == <<phase, cancelled, action, outSid, outConfig, future, attempted, uncertain>>
wireVars == <<unanswered, replies>>
talkVars == <<talk, speaker, talkSid, wanted>>
jobVars == <<read, diag, diagConfig, watch>>
vars == <<stimuli, hubVars, liveVars, leaseVars, outVars, wireVars, talkVars, jobVars>>

-----------------------------------------------------------------------------
Phases == <<"photo", "diag", "ch2", "tls", "read", "control", "viewers", "live", "talk">>
Running == {"prepare", "key", "session", "accepted"}

TypeOK ==
  /\ stimuli \in 0..MaxStimuli
  /\ unload \in {"loaded", "done"} \cup {Phases[i] : i \in 1..9}
  /\ blocked \in BOOLEAN /\ trusted \in BOOLEAN /\ config \in Nat /\ granted \in BOOLEAN
  /\ claim \in {0} \cup Channels
  /\ consumers \in [Channels -> SUBSET Owners] /\ lock \in [Channels -> BOOLEAN]
  /\ stopper \in [Channels -> {"none", "asked", "halting", "listeners"}]
  /\ run \in [Channels -> Running \cup {"off", "closing", "cleanup"}]
  /\ sid \in [Channels -> Nat] /\ connected \in [Channels -> BOOLEAN]
  /\ ready \in [Channels -> {"pending", "ok", "failed"}] /\ sessions \in Nat
  /\ at \in [Owners -> {"idle", "lock", "wait", "held", "leaving", "halting"}]
  /\ on \in [Owners -> Channels]
  /\ phase \in {"idle", "busy", "sending", "waiting", "over"} /\ cancelled \in BOOLEAN
  /\ action \in Nat /\ outSid \in Nat /\ outConfig \in Nat /\ future \in Int
  /\ attempted \in BOOLEAN /\ uncertain \in [Channels -> BOOLEAN]
  /\ unanswered \in [Channels -> SUBSET Nat] /\ replies \in [Channels -> Seq(Nat)]
  /\ talk \in [Channels -> {"off", "starting", "opened", "active", "closing"}]
  /\ speaker \in [Channels -> Viewers \cup {None}]
  /\ talkSid \in [Channels -> Nat] /\ wanted \in [Channels -> BOOLEAN]
  /\ read \in BOOLEAN /\ diagConfig \in Nat /\ watch \in Nat
  /\ diag \in {"off", "setup", "legacy", "login", "listening", "closing"}

Init ==
  /\ stimuli = 0
  /\ unload = "loaded" /\ blocked = FALSE /\ trusted = TRUE /\ config = 0 /\ granted = TRUE
  /\ claim = 0 /\ consumers = [c \in Channels |-> {}] /\ lock = [c \in Channels |-> FALSE]
  /\ stopper = [c \in Channels |-> "none"] /\ run = [c \in Channels |-> "off"]
  /\ sid = [c \in Channels |-> 0] /\ connected = [c \in Channels |-> FALSE]
  /\ ready = [c \in Channels |-> "failed"] /\ sessions = 0
  /\ at = [o \in Owners |-> "idle"] /\ on = [o \in Owners |-> 1]
  /\ phase = "idle" /\ cancelled = FALSE /\ action = 0 /\ outSid = 0 /\ outConfig = 0
  /\ future = -1 /\ attempted = FALSE /\ uncertain = [c \in Channels |-> FALSE]
  /\ unanswered = [c \in Channels |-> {}] /\ replies = [c \in Channels |-> <<>>]
  /\ talk = [c \in Channels |-> "off"] /\ speaker = [c \in Channels |-> None]
  /\ talkSid = [c \in Channels |-> 0] /\ wanted = [c \in Channels |-> FALSE]
  /\ read = FALSE /\ diag = "off" /\ diagConfig = 0 /\ watch = 0

Stimulus == stimuli < MaxStimuli /\ stimuli' = stimuli + 1

Stopped(c) == unload # "loaded" \/ (c = 2 /\ stopper[2] # "none")
\* The session can be used: PLAY was accepted and close() has not begun.
Open(c) == run[c] = "accepted"
Busy == phase # "idle"

-----------------------------------------------------------------------------
(* Trust                                                                   *)

\* _block_tls: fixed for this load; whatever runs, except the caller, is closed
Block(self) ==
  LET active == {c \in Channels \ self : run[c] # "off"} IN
  /\ blocked' = TRUE
  /\ connected' = [c \in Channels |-> connected[c] /\ c \notin active]
  /\ stopper' = [c \in Channels |-> IF c \in active /\ stopper[c] = "none" THEN "asked" ELSE stopper[c]]

\* report_tls_error: what a connection of the caller met was a trust failure
Reports(self, blocks) ==
  IF blocks THEN Block(self) ELSE UNCHANGED <<blocked, connected, stopper>>

\* check_tls_trust finds the approval expired, or it was blocked before
Distrusted == blocked \/ ~trusted
Trusting == ~Distrusted /\ UNCHANGED <<blocked, connected, stopper>>

-----------------------------------------------------------------------------
(* Leases (LiveMedia.acquire, release, stop)                               *)

Move(o, s) == at' = [at EXCEPT ![o] = s]

\* hub.acquire and Channel2Media.acquire up to the lock
Ask(o, c) ==
  /\ at[o] = "idle" /\ ~Stopped(c)
  /\ on' = [on EXCEPT ![o] = c]
  /\ \/ Trusting /\ Move(o, "lock")
     \/ Distrusted /\ Block({}) /\ UNCHANGED at
  /\ UNCHANGED <<unload, trusted, config, granted, claim, consumers, lock, run, sid, ready, sessions>>

\* A viewer opens the camera of a channel
Watch(v, c) ==
  /\ Stimulus /\ Ask(v, c)
  /\ UNCHANGED <<outVars, wireVars, talkVars, jobVars>>

\* Mutant of Refused: a claim does not keep the other channel out.
RefusedOnlyByJobs(o, c) ==
  \/ Stopped(c) \/ read \/ diag # "off"
  \/ c = 2 /\ ((Busy /\ o # "action") \/ speaker[1] # None \/ consumers[1] # {} \/ run[1] # "off")

\* _claim_media: one reader, and channel 2 does not interrupt what the main one does
Refused(o, c) ==
  \/ Stopped(c) \/ read \/ diag # "off" \/ claim \notin {0, c}
  \/ c = 2 /\ (\/ Busy /\ o # "action"
              \/ speaker[1] # None \/ talk[1] = "active" \/ consumers[1] # {} \/ run[1] # "off")

\* With the lock: claim, join, start the session unless it runs
Enter(o) ==
  LET c == on[o] IN
  /\ at[o] = "lock" /\ ~lock[c]
  /\ IF Refused(o, c)
       THEN Move(o, "idle") /\ UNCHANGED <<claim, consumers, run, ready>>
       ELSE /\ claim' = c
            /\ consumers' = [consumers EXCEPT ![c] = @ \cup {o}]
            /\ IF run[c] = "off"
                 THEN /\ run' = [run EXCEPT ![c] = "prepare"]
                      /\ ready' = [ready EXCEPT ![c] = "pending"]
                      /\ Move(o, "wait")
                 ELSE /\ UNCHANGED <<run, ready>>
                      /\ Move(o, CASE ready[c] = "pending" -> "wait"
                                   [] ready[c] = "ok" -> "held"
                                   [] ready[c] = "failed" -> "leaving")
  /\ UNCHANGED <<stimuli, hubVars, lock, stopper, sid, connected, sessions, on, outVars, wireVars, talkVars, jobVars>>

\* ready resolves for everybody who waits for this run
Resolve(c, s) ==
  at' = [o \in Owners |-> IF at[o] = "wait" /\ on[o] = c THEN s ELSE at[o]]

\* 35 s passed, or the waiting task was cancelled
GiveUp(o) ==
  /\ at[o] = "wait"
  /\ Move(o, "leaving")
  /\ UNCHANGED <<stimuli, hubVars, liveVars, on, outVars, wireVars, talkVars, jobVars>>

\* A viewer goes; its microphone was stopped before (rtc.py)
Leave(v) ==
  /\ at[v] = "held" /\ speaker[on[v]] # v
  /\ Move(v, "leaving")
  /\ UNCHANGED <<stimuli, hubVars, liveVars, on, outVars, wireVars, talkVars, jobVars>>

\* QVSession.close begins: an output that waits for its reply fails
FailOutput(c) ==
  future' = IF Busy /\ on["action"] = c /\ future = 0 /\ phase \in {"sending", "waiting"} THEN -1 ELSE future

\* _halt cancels the task, whose cleanup then runs to its end
Halt(c) ==
  /\ run' = [run EXCEPT ![c] = IF @ \in Running THEN "closing" ELSE @]
  /\ IF run[c] \in Running THEN FailOutput(c) ELSE UNCHANGED future

\* _release: the last one halts the session and keeps the lock meanwhile.  The
\* photo's lease is not released when it is gone already.
Release(o) ==
  LET c == on[o] left == consumers[c] \ {o} IN
  /\ at[o] = "leaving" /\ ~lock[c]
  /\ consumers' = [consumers EXCEPT ![c] = left]
  /\ IF left # {} \/ (o = "photo" /\ o \notin consumers[c])
       THEN Move(o, "idle") /\ UNCHANGED <<lock, run, future>>
       ELSE Move(o, "halting") /\ lock' = [lock EXCEPT ![c] = TRUE] /\ Halt(c)
  /\ UNCHANGED <<stimuli, hubVars, claim, stopper, sid, connected, ready, sessions, on, phase, cancelled, action, outSid, outConfig, attempted, uncertain, wireVars, talkVars, jobVars>>

\* _release_media
FreeClaim(c) == claim' = IF claim = c /\ consumers[c] = {} THEN 0 ELSE claim

\* Mutant of Released: the claim is only given back by stop().
ReleasedKeepsClaim(o) ==
  LET c == on[o] IN
  /\ at[o] = "halting" /\ run[c] = "off"
  /\ lock' = [lock EXCEPT ![c] = FALSE]
  /\ Move(o, "idle")
  /\ UNCHANGED <<stimuli, hubVars, claim, consumers, stopper, run, sid, connected, ready, sessions, on, outVars, wireVars, talkVars, jobVars>>

Released(o) ==
  LET c == on[o] IN
  /\ at[o] = "halting" /\ run[c] = "off"
  /\ FreeClaim(c)
  /\ lock' = [lock EXCEPT ![c] = FALSE]
  /\ Move(o, "idle")
  /\ UNCHANGED <<stimuli, hubVars, consumers, stopper, run, sid, connected, ready, sessions, on, outVars, wireVars, talkVars, jobVars>>

\* live.stop: takes every lease away
StopBegins(c) ==
  /\ stopper[c] = "asked" /\ ~lock[c]
  /\ stopper' = [stopper EXCEPT ![c] = "halting"]
  /\ lock' = [lock EXCEPT ![c] = TRUE]
  /\ consumers' = [consumers EXCEPT ![c] = {}]
  /\ Halt(c)
  /\ UNCHANGED <<stimuli, hubVars, claim, sid, connected, ready, sessions, leaseVars, phase, cancelled, action, outSid, outConfig, attempted, uncertain, wireVars, talkVars, jobVars>>

\* Mutant of StopEnds: the viewers of channel 2 are closed before the lock is let go.
StopEndsAfterViewers(c) ==
  /\ stopper[c] = "halting" /\ run[c] = "off"
  /\ c = 2 => \A v \in Viewers : on[v] = c => at[v] = "idle"
  /\ FreeClaim(c)
  /\ lock' = [lock EXCEPT ![c] = FALSE]
  /\ stopper' = [stopper EXCEPT ![c] = "none"]
  /\ UNCHANGED <<stimuli, hubVars, consumers, run, sid, connected, ready, sessions, leaseVars, outVars, wireVars, talkVars, jobVars>>

\* Channel 2 then closes its viewers and stays closing until they are gone
StopEnds(c) ==
  /\ \/ /\ stopper[c] = "halting" /\ run[c] = "off"
        /\ FreeClaim(c)
        /\ lock' = [lock EXCEPT ![c] = FALSE]
        /\ stopper' = [stopper EXCEPT ![c] = IF c = 2 THEN "listeners" ELSE "none"]
     \/ /\ stopper[c] = "listeners" /\ \A v \in Viewers : on[v] = c => at[v] = "idle"
        /\ stopper' = [stopper EXCEPT ![c] = "none"]
        /\ UNCHANGED <<claim, lock>>
  /\ UNCHANGED <<stimuli, hubVars, consumers, run, sid, connected, ready, sessions, leaseVars, outVars, wireVars, talkVars, jobVars>>

-----------------------------------------------------------------------------
(* LiveMedia._run and its QVSession                                        *)

\* _connect may still install what it connected to: close() has not begun
Connecting(c) == run[c] = "session"

\* A read of the session fails: end of file, a header or a body outside its
\* bounds, a packet that does not decode
ReadBreaks(c) == Connecting(c) \/ Open(c)

\* The session ends by itself: refused, timed out, remote teardown, a wrong
\* certificate; `blocks` when report_tls_error finds a trust failure.
RunFails(c, blocks) ==
  /\ run[c] \in {"prepare", "key"} \/ ReadBreaks(c)
  /\ run' = [run EXCEPT ![c] = "closing"]
  /\ FailOutput(c)
  /\ IF ready[c] = "pending"
       THEN ready' = [ready EXCEPT ![c] = "failed"] /\ Resolve(c, "leaving")
       ELSE UNCHANGED <<ready, at>>
  /\ Reports({c}, blocks)
  /\ UNCHANGED <<stimuli, unload, trusted, config, granted, claim, consumers, lock, sid, sessions, on, phase, cancelled, action, outSid, outConfig, attempted, uncertain, wireVars, talkVars, jobVars>>

\* Nothing is sent to a device that is not trusted (any more)
Prepare(c) ==
  /\ run[c] = "prepare" /\ ~Distrusted
  /\ run' = [run EXCEPT ![c] = "key"]
  /\ UNCHANGED <<stimuli, hubVars, claim, consumers, lock, stopper, sid, connected, ready, sessions, leaseVars, outVars, wireVars, talkVars, jobVars>>

\* Identity, stream key, decoders; connect, setup, PLAY
SessionStarts(c) ==
  /\ run[c] = "key"
  /\ run' = [run EXCEPT ![c] = "session"]
  /\ sessions' = sessions + 1
  /\ sid' = [sid EXCEPT ![c] = sessions + 1]
  /\ uncertain' = [uncertain EXCEPT ![c] = FALSE]
  /\ unanswered' = [unanswered EXCEPT ![c] = {}]
  /\ replies' = [replies EXCEPT ![c] = <<>>]
  /\ UNCHANGED <<stimuli, hubVars, claim, consumers, lock, stopper, connected, ready, leaseVars, phase, cancelled, action, outSid, outConfig, future, attempted, talkVars, jobVars>>

\* The answer to PLAY
PlayAccepted(c) ==
  /\ Connecting(c)
  /\ run' = [run EXCEPT ![c] = "accepted"]
  /\ UNCHANGED <<stimuli, hubVars, claim, consumers, lock, stopper, sid, connected, ready, sessions, leaseVars, outVars, wireVars, talkVars, jobVars>>

\* on_frame: the first decoded picture makes it ready
Frame(c) ==
  /\ run[c] = "accepted" /\ ~Stopped(c) /\ consumers[c] # {} /\ ~connected[c]
  /\ connected' = [connected EXCEPT ![c] = TRUE]
  /\ IF ready[c] = "pending"
       THEN ready' = [ready EXCEPT ![c] = "ok"] /\ Resolve(c, "held")
       ELSE UNCHANGED <<ready, at>>
  /\ UNCHANGED <<stimuli, hubVars, claim, consumers, lock, stopper, run, sid, sessions, on, outVars, wireVars, talkVars, jobVars>>

\* doorbell.media_closed, then cleanup() disables the microphone and waits for it
CloseTalk(c) ==
  /\ run[c] = "closing"
  /\ run' = [run EXCEPT ![c] = "cleanup"]
  /\ wanted' = [wanted EXCEPT ![c] = FALSE]
  /\ watch' = IF watch = sid[c] THEN 0 ELSE watch
  /\ UNCHANGED <<stimuli, hubVars, claim, consumers, lock, stopper, sid, connected, ready, sessions, leaseVars, outVars, wireVars, talk, speaker, talkSid, read, diag, diagConfig>>

\* Mutant of RunEnds: the microphone is not waited for.
RunEndsAtOnce(c) ==
  /\ run[c] = "cleanup"
  /\ run' = [run EXCEPT ![c] = "off"] /\ sid' = [sid EXCEPT ![c] = 0]
  /\ connected' = [connected EXCEPT ![c] = FALSE]
  /\ IF ready[c] = "pending"
       THEN ready' = [ready EXCEPT ![c] = "failed"] /\ Resolve(c, "leaving")
       ELSE UNCHANGED <<ready, at>>
  /\ UNCHANGED <<stimuli, hubVars, claim, consumers, lock, stopper, sessions, on, outVars, wireVars, talkVars, jobVars>>

RunEnds(c) ==
  /\ run[c] = "cleanup" /\ talk[c] = "off"
  /\ run' = [run EXCEPT ![c] = "off"] /\ sid' = [sid EXCEPT ![c] = 0]
  /\ connected' = [connected EXCEPT ![c] = FALSE]
  /\ IF ready[c] = "pending"
       THEN ready' = [ready EXCEPT ![c] = "failed"] /\ Resolve(c, "leaving")
       ELSE UNCHANGED <<ready, at>>
  /\ UNCHANGED <<stimuli, hubVars, claim, consumers, lock, stopper, sessions, on, outVars, wireVars, talkVars, jobVars>>

-----------------------------------------------------------------------------
(* Outputs (Connect3OutputController, QVSession.execute_output)            *)

\* target_status: the outputs, this one, and for channel 2 and TCP their trials are
\* switched on, the entry has its opening code and the device the output
TargetEnabled == granted

\* unlock_target: one action at a time, under the configuration it was asked with
Unlock(c) ==
  /\ Stimulus /\ ~Busy /\ TargetEnabled /\ unload = "loaded"
  /\ Ask("action", c)
  /\ phase' = (IF Distrusted THEN "idle" ELSE "busy")
  /\ cancelled' = FALSE /\ action' = action + 1 /\ outConfig' = config /\ outSid' = 0
  /\ future' = -1 /\ attempted' = FALSE
  /\ UNCHANGED <<uncertain, wireVars, talkVars, jobVars>>

\* Mutant of Authorized: trust, options and the session are not looked at again.
AuthorizedOnce == unload = "loaded" /\ outSid # 0

\* authorize_output
Authorized ==
  LET c == on["action"] IN
  /\ unload = "loaded" /\ ~Stopped(c) /\ ~blocked
  /\ connected[c] /\ sid[c] = outSid /\ outSid # 0
  /\ outConfig = config /\ TargetEnabled

OutRest == <<stimuli, hubVars, liveVars, talkVars, jobVars>>

\* With the lease: execute_output's preconditions, then a future for the reply
OutputBegins ==
  LET c == on["action"] IN
  /\ phase = "busy" /\ at["action"] = "held"
  /\ outSid' = sid[c]
  /\ IF /\ ~cancelled /\ unload = "loaded" /\ TargetEnabled /\ ~Stopped(c) /\ ~blocked
        /\ connected[c] /\ outConfig = config /\ Open(c) /\ ~uncertain[c]
       THEN phase' = "sending" /\ future' = 0 /\ UNCHANGED at
       ELSE phase' = "over" /\ Move("action", "leaving") /\ UNCHANGED future
  /\ UNCHANGED <<OutRest, on, cancelled, action, outConfig, attempted, uncertain, wireVars>>

\* _output_failed, and the lease goes back.  Once written, no later output may
\* be written to this session: the reply carries no identifier.
OutputFails ==
  LET c == on["action"] IN
  /\ uncertain' = [uncertain EXCEPT ![c] = @ \/ (attempted /\ sid[c] = outSid)]
  /\ phase' = "over" /\ Move("action", "leaving") /\ future' = -1
  /\ UNCHANGED <<OutRest, on, cancelled, action, outSid, outConfig, attempted, wireVars>>

\* _send: with the write lock everything is checked again, then the one write
OutputWrites ==
  LET c == on["action"] IN
  /\ phase = "sending" /\ ~cancelled /\ future = 0 /\ Open(c) /\ Authorized
  /\ attempted' = TRUE /\ phase' = "waiting"
  /\ unanswered' = [unanswered EXCEPT ![c] = @ \cup {action}]
  /\ UNCHANGED <<OutRest, leaseVars, cancelled, action, outSid, outConfig, future, uncertain, replies>>

OutputRefused ==
  /\ phase = "sending" /\ (cancelled \/ future # 0 \/ ~Open(on["action"]) \/ ~Authorized)
  /\ OutputFails

\* The device answers an output, some time or never
DeviceReplies(c) ==
  /\ sid[c] # 0 /\ \E a \in unanswered[c] :
       /\ \A i \in 1..Len(replies[c]) : replies[c][i] # a
       /\ replies' = [replies EXCEPT ![c] = Append(@, a)]
  /\ UNCHANGED <<stimuli, hubVars, liveVars, leaseVars, outVars, unanswered, talkVars, jobVars>>

\* _observe_output_response on the session's reader: it is for whoever waits;
\* a reply that cannot be parsed fails the action
ReplyRead(c) ==
  LET mine == phase = "waiting" /\ on["action"] = c /\ sid[c] = outSid /\ future = 0 IN
  /\ run[c] = "accepted" /\ replies[c] # <<>>
  /\ replies' = [replies EXCEPT ![c] = Tail(@)]
  /\ unanswered' = [unanswered EXCEPT ![c] = @ \ {Head(replies[c])}]
  /\ \/ future' = (IF mine THEN Head(replies[c]) ELSE future) /\ UNCHANGED uncertain
     \/ mine /\ future' = -1 /\ uncertain' = [uncertain EXCEPT ![c] = TRUE]
  /\ UNCHANGED <<stimuli, hubVars, liveVars, leaseVars, phase, cancelled, action, outSid, outConfig, attempted, talkVars, jobVars>>

\* Confirmed or rejected by the device
OutputAnswered ==
  /\ phase = "waiting" /\ ~cancelled /\ future > 0
  /\ phase' = "over" /\ Move("action", "leaving")
  /\ UNCHANGED <<OutRest, on, cancelled, action, outSid, outConfig, future, attempted, uncertain, wireVars>>

\* Cancelled, the session closed, a bad reply, or 15 s without one
OutputUnanswered == phase = "waiting" /\ (cancelled \/ future <= 0) /\ OutputFails

\* The task ends once its lease is released, or was never obtained
OutputEnds ==
  /\ phase \in {"busy", "over"} /\ at["action"] = "idle"
  /\ phase' = "idle"
  /\ UNCHANGED <<OutRest, leaseVars, cancelled, action, outSid, outConfig, future, attempted, uncertain, wireVars>>

\* The caller's task is cancelled, or control.close() cancels it
CancelOutput ==
  /\ Busy /\ ~cancelled
  /\ (unload = "control" /\ UNCHANGED stimuli) \/ Stimulus
  /\ cancelled' = TRUE
  /\ at' = [at EXCEPT !["action"] = CASE @ = "lock" -> "idle" [] @ = "wait" -> "leaving" [] OTHER -> @]
  /\ UNCHANGED <<hubVars, liveVars, on, phase, action, outSid, outConfig, future, attempted, uncertain, wireVars, talkVars, jobVars>>

-----------------------------------------------------------------------------
(* Talkback                                                                *)

\* secondary_talk_context_valid: the microphone of channel 2 is switched on, and
\* channel 2 is what is watched
TalkRoute(c) == c = 2 => granted /\ claim = 2 /\ consumers[2] # {}

\* _live_valid: the very session it started on, still open
LiveValid(c) == TalkRoute(c) /\ ~Stopped(c) /\ connected[c] /\ sid[c] = talkSid[c] /\ Open(c)

\* talk_parameters: the material of the open session
TalkMaterial(c) == TalkRoute(c) /\ ~Stopped(c) /\ connected[c] /\ Open(c)

\* _check_start, after every await and, with the write lock, before every write
CheckStart(c) == wanted[c] /\ LiveValid(c)

Talking(c, s) == talk' = [talk EXCEPT ![c] = s]
TalkRest == <<leaseVars, outVars, wireVars, jobVars>>
TalkOnly == <<stimuli, hubVars, liveVars, TalkRest>>

\* start: one owner; the material comes from the open session, the socket is its own
TalkStart(v) ==
  LET c == on[v] IN
  /\ Stimulus /\ at[v] = "held" /\ talk[c] = "off" /\ speaker[c] = None
  /\ TalkRoute(c) /\ ~Stopped(c) /\ connected[c]
  /\ IF Distrusted
       THEN Block({}) /\ UNCHANGED talkVars
       ELSE /\ TalkMaterial(c)
            /\ Talking(c, "starting")
            /\ speaker' = [speaker EXCEPT ![c] = v]
            /\ talkSid' = [talkSid EXCEPT ![c] = sid[c]]
            /\ wanted' = [wanted EXCEPT ![c] = TRUE]
            /\ UNCHANGED <<blocked, connected, stopper>>
  /\ UNCHANGED <<unload, trusted, config, granted, claim, consumers, lock, run, sid, ready, sessions, TalkRest>>

\* The socket, setup and open
TalkOpens(c) ==
  /\ talk[c] = "starting" /\ CheckStart(c)
  /\ Talking(c, "opened")
  /\ UNCHANGED <<TalkOnly, speaker, talkSid, wanted>>

\* The requests, their answers and the encoder
TalkRequests(c) ==
  /\ talk[c] = "opened" /\ CheckStart(c)
  /\ Talking(c, "active")
  /\ UNCHANGED <<TalkOnly, speaker, talkSid, wanted>>

\* Its own reads and writes fail: what the peer sends is not in order, or (over TCP)
\* what would be written is not; the certificate may have changed
TalkBreaks(c, blocks) ==
  /\ talk[c] \in {"starting", "opened"}
  /\ Talking(c, "closing") /\ wanted' = [wanted EXCEPT ![c] = FALSE]
  /\ Reports({}, blocks)
  /\ UNCHANGED <<stimuli, unload, trusted, config, granted, claim, consumers, lock, run, sid, ready, sessions, TalkRest, speaker, talkSid>>

\* A lost session, a missing heartbeat, a remote teardown, or stop(): the
\* connection is closed
TalkEnds(c) ==
  /\ talk[c] \in {"starting", "opened", "active"}
  /\ Talking(c, "closing") /\ wanted' = [wanted EXCEPT ![c] = FALSE]
  /\ UNCHANGED <<TalkOnly, speaker, talkSid>>

\* _close_connection, then the owner goes
TalkClosed(c) ==
  /\ talk[c] = "closing"
  /\ Talking(c, "off")
  /\ speaker' = [speaker EXCEPT ![c] = None] /\ talkSid' = [talkSid EXCEPT ![c] = 0]
  /\ UNCHANGED <<TalkOnly, wanted>>

-----------------------------------------------------------------------------
(* The ring photo, reads, the alarm diagnostic, the observation            *)

\* _check_available; a stable microphone on this very session does no harm
PhotoAvailable(c) ==
  /\ ~Stopped(c) /\ claim \in {0, c} /\ ~Busy /\ ~read /\ diag = "off"
  /\ \A d \in Channels : talk[d] # "off" \/ speaker[d] # None =>
       d = c /\ talk[d] = "active" /\ connected[c] /\ talkSid[d] = sid[c]

\* _cloud_ring with the photo enabled
RingPhoto(c) ==
  /\ Stimulus /\ PhotoAvailable(c) /\ Ask("photo", c)
  /\ UNCHANGED <<outVars, wireVars, talkVars, jobVars>>

\* The next picture of the session, none in time, or no longer available
PhotoTaken ==
  /\ at["photo"] = "held"
  /\ Move("photo", "leaving")
  /\ UNCHANGED <<stimuli, hubVars, liveVars, on, outVars, wireVars, talkVars, jobVars>>

JobRest == <<claim, consumers, lock, run, sid, ready, sessions, leaseVars, outVars, wireVars, talkVars>>

\* execute: reads need the device for themselves
Read ==
  /\ Stimulus /\ unload = "loaded" /\ consumers[1] = {} /\ claim = 0 /\ run[1] = "off"
  /\ diag = "off" /\ ~read
  /\ \/ Trusting /\ read' = TRUE
     \/ Distrusted /\ Block({}) /\ UNCHANGED read
  /\ UNCHANGED <<unload, trusted, config, granted, JobRest, diag, diagConfig, watch>>

ReadEnds(blocks) ==
  /\ read /\ read' = FALSE
  /\ Reports({}, blocks)
  /\ UNCHANGED <<stimuli, unload, trusted, config, granted, JobRest, diag, diagConfig, watch>>

\* R002InvestigationHub._busy
R002Busy ==
  unload # "loaded" \/ consumers[1] # {} \/ claim # 0 \/ read \/ \E c \in Channels : run[c] # "off"

\* A probe, a certificate check or a discovery of an R002, which listens to no
\* alarms: one bounded request that needs the device for itself, and no trust
Investigate ==
  /\ Stimulus /\ diag = "off" /\ ~R002Busy
  /\ read' = TRUE
  /\ UNCHANGED <<hubVars, liveVars, leaseVars, outVars, wireVars, talkVars, diag, diagConfig, watch>>

\* AutonomousDoorbellDiagnostic.execute('start')
DiagBusy ==
  \/ unload # "loaded" \/ claim # 0 \/ Busy \/ talk[1] = "active" \/ speaker[1] # None \/ read
  \/ \E c \in Channels : consumers[c] # {} \/ run[c] # "off"

Listen ==
  /\ Stimulus /\ diag = "off" /\ ~DiagBusy
  /\ \/ Trusting /\ diag' = "setup" /\ diagConfig' = config
     \/ Distrusted /\ Block({}) /\ UNCHANGED <<diag, diagConfig>>
  /\ UNCHANGED <<unload, trusted, config, granted, JobRest, read, watch>>

\* _check_binding before every step: stop, trust and entry.data are as they were
Bound == unload = "loaded" /\ ~Distrusted /\ diagConfig = config

\* The setup is answered.  An old device needs a second connection for its login.
DiagReconnects ==
  /\ Bound
  /\ \/ diag = "setup" /\ diag' \in {"legacy", "login"}
     \/ diag = "legacy" /\ diag' = "login"
  /\ UNCHANGED <<stimuli, hubVars, liveVars, leaseVars, outVars, wireVars, talkVars, read, diagConfig, watch>>

\* The stream key, two login records, the subscription; then it listens
DiagLogsIn ==
  /\ Bound /\ diag = "login" /\ diag' = "listening"
  /\ UNCHANGED <<stimuli, hubVars, liveVars, leaseVars, outVars, wireVars, talkVars, read, diagConfig, watch>>

\* Refused, failed, the duration is over, stopped by the user or by finish()
DiagEnds(blocks) ==
  /\ diag \in {"setup", "legacy", "login", "listening"} /\ diag' = "closing"
  /\ Reports({}, blocks)
  /\ UNCHANGED <<stimuli, unload, trusted, config, granted, JobRest, read, diagConfig, watch>>

DiagClosed ==
  /\ diag = "closing" /\ diag' = "off"
  /\ UNCHANGED <<stimuli, hubVars, liveVars, leaseVars, outVars, wireVars, talkVars, read, diagConfig, watch>>

\* DoorbellObservation: bound to one open session, by a timer and by its end
Observe(c) ==
  /\ Stimulus /\ watch = 0 /\ ~Stopped(c) /\ connected[c] /\ Open(c)
  /\ watch' = sid[c]
  /\ UNCHANGED <<hubVars, liveVars, leaseVars, outVars, wireVars, talkVars, read, diag, diagConfig>>

ObserveEnds ==
  /\ watch # 0 /\ watch' = 0
  /\ UNCHANGED <<stimuli, hubVars, liveVars, leaseVars, outVars, wireVars, talkVars, read, diag, diagConfig>>

-----------------------------------------------------------------------------
(* The entry                                                               *)

\* Its data or options change under running operations
Reconfigure ==
  /\ Stimulus /\ unload = "loaded"
  /\ config' = config + 1 /\ granted' \in BOOLEAN
  /\ UNCHANGED <<unload, blocked, trusted, liveVars, leaseVars, outVars, wireVars, talkVars, jobVars>>

TrustLost ==
  /\ Stimulus /\ trusted /\ trusted' = FALSE
  /\ UNCHANGED <<unload, blocked, config, granted, liveVars, leaseVars, outVars, wireVars, talkVars, jobVars>>

\* hub.stop: finish() the diagnostic, then _stop, one after the other
Unload ==
  /\ Stimulus /\ unload = "loaded"
  /\ unload' = "photo"
  /\ diag' = (IF diag \in {"off", "closing"} THEN diag ELSE "closing")
  /\ UNCHANGED <<blocked, trusted, config, granted, liveVars, leaseVars, outVars, wireVars, talkVars, read, diagConfig, watch>>

Drained ==
  [photo |-> at["photo"] = "idle",
   diag |-> diag = "off",
   ch2 |-> stopper[2] = "none",
   tls |-> stopper[1] = "none",
   read |-> ~read,
   control |-> ~Busy,
   viewers |-> \A v \in Viewers : at[v] = "idle",
   live |-> stopper[1] = "none",
   talk |-> \A c \in Channels : talk[c] = "off"]

\* What a phase waits for is over; the next one begins with what it asks for.  A
\* stop that a trust failure asked for meanwhile does the same as its own.
UnloadProceeds ==
  \E i \in 1..9 :
    /\ unload = Phases[i] /\ Drained[Phases[i]]
    /\ unload' = (IF i = 9 THEN "done" ELSE Phases[i + 1])
    /\ watch' = (IF unload = "diag" THEN 0 ELSE watch)
    /\ stopper' = [stopper EXCEPT ![1] = IF unload = "viewers" /\ @ = "none" THEN "asked" ELSE @,
                                  ![2] = IF unload = "diag" /\ @ = "none" THEN "asked" ELSE @]
    /\ UNCHANGED <<stimuli, blocked, trusted, config, granted, claim, consumers, lock, run, sid, connected, ready, sessions, leaseVars, outVars, wireVars, talkVars, read, diag, diagConfig>>

-----------------------------------------------------------------------------
Outside ==
  \/ \E c \in Channels : Unlock(c) \/ RingPhoto(c) \/ Observe(c) \/ \E v \in Viewers : Watch(v, c)
  \/ \E v \in Viewers : TalkStart(v)
  \/ CancelOutput /\ Stimulus
  \/ Read \/ Investigate \/ Listen \/ Reconfigure \/ TrustLost \/ Unload

\* What may happen without anybody asking for it
Perhaps ==
  \/ \E v \in Viewers : Leave(v)
  \/ \E c \in Channels : TalkEnds(c) \/ \E b \in BOOLEAN : RunFails(c, b) \/ TalkBreaks(c, b)
  \/ \E b \in BOOLEAN : ReadEnds(b) \/ DiagEnds(b)
  \/ \E c \in Channels : DeviceReplies(c)

\* What the code goes on to do; every wait of it is bounded by a timeout
Onwards ==
  \/ \E o \in Owners : Enter(o) \/ GiveUp(o) \/ Release(o) \/ Released(o)
  \/ \E c \in Channels :
       \/ StopBegins(c) \/ StopEnds(c) \/ Prepare(c) \/ SessionStarts(c) \/ PlayAccepted(c)
       \/ Frame(c) \/ CloseTalk(c) \/ RunEnds(c) \/ ReplyRead(c)
       \/ TalkOpens(c) \/ TalkRequests(c) \/ TalkClosed(c)
       \/ ~CheckStart(c) /\ TalkEnds(c)
       \/ run[c] = "prepare" /\ Distrusted /\ RunFails(c, TRUE)
  \/ OutputBegins \/ OutputWrites \/ OutputRefused \/ OutputAnswered \/ OutputUnanswered \/ OutputEnds
  \/ CancelOutput /\ UNCHANGED stimuli
  \/ PhotoTaken \/ DiagReconnects \/ DiagLogsIn \/ DiagClosed \/ ObserveEnds \/ UnloadProceeds
  \/ (unload # "loaded" \/ ~trusted) /\ ReadEnds(FALSE)
  \/ \E v \in Viewers :
       (unload = "viewers" \/ (stopper[2] = "listeners" /\ on[v] = 2)) /\ Leave(v)

Next == Outside \/ Perhaps \/ Onwards

Spec == Init /\ [][Next]_vars /\ WF_vars(Onwards)

-----------------------------------------------------------------------------
(* Properties                                                              *)

\* The device has one reader: a session of either channel, a CGI read or the
\* alarm diagnostic, whatever joins, fails, halts or is stopped meanwhile.
OneReader ==
  Cardinality({c \in Channels : run[c] # "off"}) + (IF read THEN 1 ELSE 0)
    + (IF diag # "off" THEN 1 ELSE 0) <= 1

\* The claim is never lost and never left behind: it belongs to the channel that
\* has leases or is halting, every lease has an owner that will give it back, and
\* a session that runs is somebody's.
ClaimIsLease ==
  /\ \A c \in Channels :
       /\ consumers[c] # {} \/ run[c] # "off" => claim = c
       /\ run[c] # "off" => consumers[c] # {} \/ lock[c]
       /\ \A o \in consumers[c] : on[o] = c /\ at[o] \in {"wait", "held", "leaving"}
  /\ claim # 0 => consumers[claim] # {} \/ lock[claim]

\* What rides on a session ends before it: a microphone, with its socket and its
\* owner, and the observation of its control messages.
NothingOutlivesVideo ==
  /\ \A c \in Channels : talk[c] # "off" => sid[c] = talkSid[c] /\ sid[c] # 0
  /\ watch # 0 => \E c \in Channels : sid[c] = watch

\* A door code goes out once per action, to the session the action leased, while
\* that is open, claimed and trusted and the options are those of the request, and
\* never when an earlier code of this session may still be answered.
WriteBound ==
  [][\A c \in Channels : ~(unanswered'[c] \subseteq unanswered[c]) =>
       /\ unanswered[c] = {} /\ replies[c] = <<>>
       /\ claim = c /\ "action" \in consumers[c] /\ sid[c] = outSid
       /\ run[c] = "accepted" /\ unload = "loaded" /\ ~blocked
       /\ ~attempted /\ outConfig = config /\ granted]_vars

\* Both channels as one session: nobody can tell which of them has it.
Device ==
  IF \A c \in Channels : run[c] = "off" THEN "free"
  ELSE IF \A c \in Channels : consumers[c] = {} THEN "closing" ELSE "open"

Lease == INSTANCE MediaLease
           WITH Consumers <- Owners, Staged <- TRUE,
                leases <- consumers[1] \cup consumers[2], device <- Device, closed <- unload # "loaded"

\* Viewers, output actions and ring photos of two channels, with a claim, two
\* locks and a stop for each, amount to one lease service of one session: it is
\* never handed out while it closes, nor after the unload began.
ImplementsLease == Lease!Spec

\* Unloading ends, whoever waits for whom.
UnloadEnds == unload # "loaded" ~> unload = "done"

=============================================================================
