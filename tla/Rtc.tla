-------------------------------- MODULE Rtc --------------------------------
(***************************************************************************)
(* The WebRTC viewers of an intercom and its one microphone: rtc.py (class *)
(* WebRTCManager), talkback.py (class Talkback) and the subscription of    *)
(* player.py that owns each viewer.                                        *)
(*                                                                         *)
(* The media hub appears as what MediaHub.tla shows it to promise: leases, *)
(* one channel at a time, a source that starts with the first lease and is *)
(* joined, under hub.lock, by whoever returns the last one.                *)
(*                                                                         *)
(* Every task of the event loop steps from one await to the next.  Jobs of *)
(* a viewer are named by the identifier of the microphone command they     *)
(* serve; job 0 stands for the watchdog, the inbound audio and the closing *)
(* of the data channel, which all stop the microphone by themselves.       *)
(***************************************************************************)
EXTENDS Naturals, Sequences, FiniteSets

CONSTANTS
  Sessions,     \* the sessions browsers open, each offered once
  Readers,      \* the HTTP readers of the local stream
  None,         \* no session
  MaxViewers,   \* how many viewers a manager accepts (4 in the code)
  MaxMic,       \* bound: identifiers a page gives to its microphone requests
  MaxFaults     \* bound: failures, losses and time-outs in a behaviour

ASSUME RtcAssumption ==
  /\ None \notin Sessions \cup Readers /\ Sessions \cap Readers = {}
  /\ MaxViewers \in Nat \ {0} /\ MaxMic \in Nat /\ MaxFaults \in Nat

VARIABLES
  leases,    \* hub.consumers
  active,    \* hub._active_media_channel
  media,     \* the media worker: none, starting, live, or left behind by a join
  joining,   \* who holds hub.lock while it joins the worker
  manager,   \* close_all: not called, awaiting offers, awaiting viewers, done
  sub,       \* the subscription of player_offer and its cleanup task
  chan,      \* the channel of the camera each session was offered to
  offer,     \* where each offer task is
  fate,      \* why it left its ordinary course
  viewers,   \* manager.viewers
  closing,   \* where each _close_viewer task is
  link,      \* the peer connection as both ends see it
  told,      \* what the browser was sent: an answer or an error
  owner,     \* talkback.owner
  gate,      \* talkback.active: microphone audio is sent to the device
  reply,     \* talkback.reply
  origin,    \* talkback.session: none, the hub's session, or one that ended
  posted,    \* callbacks of media_closed not yet run: _reply and _ended
  cool,      \* less than 0.8 s since the last stop
  job,       \* the microphone jobs of each viewer
  queue,     \* who waits for talkback.lock, a fair lock: <<v, w>> if w does not
             \* have it before v
  enabled,   \* viewer.mic_enabled
  micId,     \* viewer.mic_id, the identifier of its latest command
  wire,      \* commands in the data channel, towards the integration
  mail,      \* microphone states in the data channel, towards the page
  faults

hubVars    == <<leases, active, media, joining>>
offerVars  == <<offer, fate, told>>
talkVars   == <<owner, gate, reply, origin, posted, cool>>
jobVars    == <<job, queue, enabled, micId>>
pipeVars   == <<wire, mail>>
rtcVars == <<hubVars, manager, sub, chan, offerVars, viewers, closing, link,
             talkVars, jobVars, pipeVars, faults>>

-----------------------------------------------------------------------------
(* Types and helpers *)

Channels == {1, 2}
Running == {"describe", "acquire", "ready", "late", "answer", "giveup", "giving",
            "unwound", "closing"}
OfferPcs == Running \cup {"none", "created", "done"}
CloseRunning == {"mic", "jobs", "talk", "lease", "join"}
ClosePcs == CloseRunning \cup {"none", "done", "failed"}
Ids == 0..MaxMic
Jobs == Sessions \X Ids
Locked == {"send", "cut", "wait", "undo", "stopping"}
JobPcs == Locked \cup {"none", "lock", "stop"}
Command == [id: Ids, on: BOOLEAN]

\* Who holds what, and where every task is.
RtcPlacesOK ==
  /\ leases \subseteq Sessions \cup Readers
  /\ active \in Channels
  /\ media \in {"none", "starting", "live", "zombie"}
  /\ joining \in Sessions \cup Readers \cup {None}
  /\ manager \in {"open", "offers", "viewers", "closed"}
  /\ sub \in [Sessions -> {"none", "sent", "lost", "on", "cancel", "gather", "close",
                           "done", "failed"}]
  /\ chan \in [Sessions -> Channels]
  /\ offer \in [Sessions -> OfferPcs]
  /\ fate \in [Sessions -> {"go", "fail", "cancel"}]
  /\ viewers \subseteq Sessions
  /\ closing \in [Sessions -> ClosePcs]
  /\ link \in [Sessions -> {"new", "up", "broken"}]
  /\ told \in [Sessions -> {"nothing", "answer", "error"}]

RtcTypeOK ==
  /\ RtcPlacesOK
  /\ owner \in Sessions \cup {None}
  /\ gate \in BOOLEAN /\ cool \in BOOLEAN
  /\ reply \in {"none", "pending", "ok", "error"}
  /\ origin \in {"none", "current", "ended"}
  /\ posted \in 0..2
  /\ job \in [Sessions -> [Ids -> JobPcs]]
  /\ queue \subseteq Jobs \X Jobs
  /\ enabled \in [Sessions -> BOOLEAN]
  /\ micId \in [Sessions -> Ids]
  /\ wire \in [Sessions -> Seq(Command)]
  /\ mail \in [Sessions -> Seq(Command)]
  /\ faults \in 0..MaxFaults

\* Before any offer; and with every session of S offered to the camera of
\* channel ch, answered and connected, as it is some time later.
RtcInit(S, ch) ==
  /\ leases = S /\ active = ch /\ joining = None /\ manager = "open"
  /\ media = IF S = {} THEN "none" ELSE "live"
  /\ sub = [s \in Sessions |-> IF s \in S THEN "on" ELSE "none"]
  /\ chan = [s \in Sessions |-> ch]
  /\ offer = [s \in Sessions |-> IF s \in S THEN "done" ELSE "none"]
  /\ fate = [s \in Sessions |-> "go"]
  /\ viewers = S
  /\ closing = [s \in Sessions |-> "none"]
  /\ link = [s \in Sessions |-> IF s \in S THEN "up" ELSE "new"]
  /\ told = [s \in Sessions |-> IF s \in S THEN "answer" ELSE "nothing"]
  /\ owner = None /\ gate = FALSE /\ reply = "none" /\ origin = "none"
  /\ posted = 0 /\ cool = FALSE
  /\ job = [s \in Sessions |-> [k \in Ids |-> "none"]]
  /\ queue = {}
  /\ enabled = [s \in Sessions |-> FALSE]
  /\ micId = [s \in Sessions |-> 0]
  /\ wire = [s \in Sessions |-> <<>>]
  /\ mail = [s \in Sessions |-> <<>>]
  /\ faults = 0

Fault == faults < MaxFaults /\ faults' = faults + 1
Stopped == manager # "open"

\* Who holds talkback.lock is the job, or the closing viewer, whose place is
\* inside the locked section.
TalkLocked ==
  \/ \E s \in Sessions, k \in Ids : job[s][k] \in Locked
  \/ \E s \in Sessions : closing[s] = "talk"

\* asyncio.Lock: the waiters, who comes last, and who has left.
Waiting == {w \in Jobs : <<w, w>> \in queue}
With(w) == queue \cup {<<v, w>> : v \in Waiting \cup {w}}
Without(W) == {p \in queue : p[1] \notin W /\ p[2] \notin W}

\* A job that can have the lock has it within a turn of the event loop: before
\* the next command, the next round of the watchdog, and before a session that
\* has to log in and to send a picture is up.
HandedOver == Waiting = {} \/ TalkLocked

-----------------------------------------------------------------------------
(* The media hub *)

ChannelTaken(ch) == (leases # {} \/ media # "none") /\ active # ch

AcquireRefused(ch) ==
  \/ Stopped
  \/ media = "zombie"
  \/ ChannelTaken(ch)
  \/ ch = 2 /\ owner # None

\* The locked part of hub.acquire.
Take(c, ch) ==
  /\ leases' = leases \cup {c}
  /\ active' = ch
  /\ media' = IF media = "none" THEN "starting" ELSE media
  /\ UNCHANGED joining

\* hub.release, up to the join: does c return the last lease?
Last(c) == leases = {c}

GiveBack(c) ==
  /\ joining = None
  /\ leases' = leases \ {c}
  /\ joining' = IF Last(c) THEN c ELSE None
  /\ UNCHANGED <<active, media>>

\* The media session ends: media_closed has sent stop-talk and posts _reply
\* and _ended to the loop.
SessionEnds ==
  /\ origin' = IF origin = "current" THEN "ended" ELSE origin
  /\ posted' = IF origin = "current" THEN 2 ELSE posted

\* hub._state runs on the loop, after what the worker has posted before.
MediaUp ==
  /\ media = "starting" /\ joining = None
  /\ posted = 0 /\ HandedOver
  /\ media' = "live"
  /\ UNCHANGED <<leases, active, joining, manager, sub, chan, offerVars, viewers, closing,
                 link, talkVars, jobVars, pipeVars, faults>>

\* The device closes the session; the worker connects again or gives up.
MediaLost ==
  /\ media \in {"starting", "live"} /\ joining = None /\ Fault
  /\ media' \in {"starting", "none"}
  /\ SessionEnds
  /\ UNCHANGED <<leases, active, joining, manager, sub, chan, offerVars, viewers, closing,
                 link, owner, gate, reply, cool, jobVars, pipeVars>>

\* A worker that outlived its join ends.
ZombieEnds ==
  /\ media = "zombie"
  /\ media' = "none"
  /\ SessionEnds
  /\ UNCHANGED <<leases, active, joining, manager, sub, chan, offerVars, viewers, closing,
                 link, owner, gate, reply, cool, jobVars, pipeVars, faults>>

\* The join of hub.release returns, or its 15 s run out.
Join ==
  /\ joining # None
  /\ joining' = None
  /\ \/ /\ media' = "none" /\ active' = 1 /\ SessionEnds /\ UNCHANGED faults
        /\ closing' = [s \in Sessions |->
                         IF s = joining /\ closing[s] = "join" THEN "done" ELSE closing[s]]
     \/ /\ media \in {"starting", "live"} /\ Fault
        /\ media' = "zombie" /\ UNCHANGED <<active, origin, posted>>
        /\ closing' = [s \in Sessions |->
                         IF s = joining /\ closing[s] = "join" THEN "failed" ELSE closing[s]]
  /\ offer' = [s \in Sessions |->
                 IF s = joining /\ offer[s] = "giving" THEN "unwound" ELSE offer[s]]
  /\ UNCHANGED <<leases, manager, sub, chan, fate, told, viewers, link, owner, gate,
                 reply, cool, jobVars, pipeVars>>

-----------------------------------------------------------------------------
(* An offer: rtc.offer as a task of player_offer *)

\* player_offer: the subscription is registered and the offer task created.
Offered(s) ==
  /\ sub[s] = "sent"
  /\ sub' = [sub EXCEPT ![s] = "on"]
  /\ offer' = [offer EXCEPT ![s] = "created"]
  /\ UNCHANGED <<hubVars, manager, chan, fate, told, viewers, closing, link, talkVars,
                 jobVars, pipeVars, faults>>

Full(s) == Cardinality({v \in viewers : chan[v] = chan[s]}) >= MaxViewers

\* rtc.offer up to its first await: refused, or registered as a viewer.
Register(s) ==
  /\ offer[s] = "created"
  /\ IF Stopped \/ Full(s)
       THEN /\ offer' = [offer EXCEPT ![s] = "done"]
            /\ told' = [told EXCEPT ![s] = "error"]
            /\ UNCHANGED viewers
       ELSE /\ offer' = [offer EXCEPT ![s] = "describe"]
            /\ viewers' = viewers \cup {s}
            /\ UNCHANGED told
  /\ UNCHANGED <<hubVars, manager, sub, chan, fate, closing, link, talkVars, jobVars,
                 pipeVars, faults>>

\* The offer goes on only for a viewer that is still registered.
Resumes(s, next) == offer' = [offer EXCEPT ![s] = IF s \in viewers THEN next ELSE "done"]

Describe(s) ==
  /\ offer[s] = "describe"
  /\ Resumes(s, "acquire")
  /\ UNCHANGED <<hubVars, manager, sub, chan, fate, told, viewers, closing, link, talkVars,
                 jobVars, pipeVars, faults>>

Acquire(s) ==
  /\ offer[s] = "acquire" /\ joining = None
  /\ ~AcquireRefused(chan[s])
  /\ Take(s, chan[s])
  /\ offer' = [offer EXCEPT ![s] = "ready"]
  /\ UNCHANGED <<manager, sub, chan, fate, told, viewers, closing, link, talkVars, jobVars,
                 pipeVars, faults>>

\* (mutant: the viewer is not looked up again after hub.acquire)
AcquiredUnchecked(s) ==
  /\ offer[s] = "ready" /\ media = "live" /\ joining = None
  /\ Resumes(s, "answer")
  /\ UNCHANGED <<hubVars, manager, sub, chan, fate, told, viewers, closing, link, talkVars,
                 jobVars, pipeVars, faults>>

\* hub.acquire returns; a viewer closed meanwhile gives the lease back.
Acquired(s) ==
  /\ offer[s] = "ready" /\ media = "live" /\ joining = None
  /\ offer' = [offer EXCEPT ![s] = IF s \in viewers THEN "answer" ELSE "late"]
  /\ UNCHANGED <<hubVars, manager, sub, chan, fate, told, viewers, closing, link, talkVars,
                 jobVars, pipeVars, faults>>

Answer(s) ==
  /\ offer[s] = "answer"
  /\ Resumes(s, "done")
  /\ told' = IF s \in viewers THEN [told EXCEPT ![s] = "answer"] ELSE told
  /\ UNCHANGED <<hubVars, manager, sub, chan, fate, viewers, closing, link, talkVars,
                 jobVars, pipeVars, faults>>

\* Where the task goes when an exception reaches its await: a lease taken by
\* hub.acquire is given back first.
Unwind(at) == CASE at \in {"describe", "acquire", "answer"} -> "unwound"
                [] at = "ready" -> "giveup"
                [] at \in {"created", "closing"} -> "done"
                [] OTHER -> at

\* The offer is refused by the hub, the source fails, or a step fails or times
\* out (50 s in all).
OfferFails(s) ==
  /\ offer[s] \in {"describe", "acquire", "ready", "answer"}
  /\ \/ offer[s] = "acquire" /\ joining = None /\ AcquireRefused(chan[s]) /\ UNCHANGED faults
     \/ offer[s] = "ready" /\ media = "none" /\ UNCHANGED faults
     \/ Fault
  /\ offer' = [offer EXCEPT ![s] = Unwind(offer[s])]
  /\ fate' = [fate EXCEPT ![s] = "fail"]
  /\ UNCHANGED <<hubVars, manager, sub, chan, told, viewers, closing, link, talkVars, jobVars,
                 pipeVars>>

\* hub.release awaited by the offer task itself.
OfferGivesBack(s) ==
  /\ offer[s] \in {"late", "giveup"}
  /\ GiveBack(s)
  /\ offer' = [offer EXCEPT ![s] = IF Last(s) THEN "giving" ELSE "unwound"]
  /\ UNCHANGED <<manager, sub, chan, fate, told, viewers, closing, link, talkVars, jobVars,
                 pipeVars, faults>>

\* close: the viewers of S leave the manager and a task cleans up after each.
Pop(S) ==
  /\ viewers' = viewers \ S
  /\ closing' = [s \in Sessions |-> IF s \in S THEN "mic" ELSE closing[s]]

\* The end of an offer that did not answer: it closes its own viewer, if
\* nobody has, and reports the error.
Unwound(s) ==
  /\ offer[s] = "unwound"
  /\ offer' = [offer EXCEPT ![s] = IF s \in viewers THEN "closing" ELSE "done"]
  /\ Pop(viewers \cap {s})
  /\ UNCHANGED <<hubVars, manager, sub, chan, fate, told, link, talkVars, jobVars, pipeVars,
                 faults>>

OfferEnds(s) ==
  /\ offer[s] = "closing" /\ closing[s] \notin CloseRunning
  /\ offer' = [offer EXCEPT ![s] = "done"]
  /\ told' = IF fate[s] = "fail" /\ closing[s] = "done"
               THEN [told EXCEPT ![s] = "error"] ELSE told
  /\ UNCHANGED <<hubVars, manager, sub, chan, fate, viewers, closing, link, talkVars, jobVars,
                 pipeVars, faults>>

\* task.cancel() on the offers of S.
Cancel(S) ==
  /\ offer' = [s \in Sessions |-> IF s \in S THEN Unwind(offer[s]) ELSE offer[s]]
  /\ fate' = [s \in Sessions |->
                IF s \in S /\ offer[s] \in Running \cup {"created"} THEN "cancel" ELSE fate[s]]

-----------------------------------------------------------------------------
(* The cleanup of a subscription: player_stop, unsubscribing, a lost socket *)

\* start_cleanup creates the task once.
CleanupOf(S) == [s \in Sessions |-> IF s \in S /\ sub[s] = "on" THEN "cancel" ELSE sub[s]]

CleanupCancels(s) ==
  /\ sub[s] = "cancel"
  /\ sub' = [sub EXCEPT ![s] = "gather"]
  /\ Cancel({s})
  /\ UNCHANGED <<hubVars, manager, chan, told, viewers, closing, link, talkVars, jobVars,
                 pipeVars, faults>>

\* (mutant: a viewer that is already out of the manager counts as closed)
CleanupClosesUnjoined(s) ==
  /\ sub[s] = "gather" /\ offer[s] \notin Running
  /\ Pop(viewers \cap {s})
  /\ sub' = [sub EXCEPT ![s] = IF s \in viewers THEN "close" ELSE "done"]
  /\ UNCHANGED <<hubVars, manager, chan, offerVars, link, talkVars, jobVars, pipeVars, faults>>

\* rtc.close: closes the viewer, or joins the cleanup that runs already.
CleanupCloses(s) ==
  /\ sub[s] = "gather" /\ offer[s] \notin Running
  /\ Pop(viewers \cap {s})
  /\ sub' = [sub EXCEPT ![s] = IF s \in viewers \/ closing[s] # "none" THEN "close" ELSE "done"]
  /\ UNCHANGED <<hubVars, manager, chan, offerVars, link, talkVars, jobVars, pipeVars, faults>>

CleanupEnds(s) ==
  /\ sub[s] = "close" /\ closing[s] \notin CloseRunning
  /\ sub' = [sub EXCEPT ![s] = closing[s]]
  /\ UNCHANGED <<hubVars, manager, chan, offerVars, viewers, closing, link, talkVars, jobVars,
                 pipeVars, faults>>

\* player_offer sees its offer cancelled by close_all.
OfferAbandoned(s) ==
  /\ sub[s] = "on" /\ offer[s] = "done" /\ fate[s] = "cancel"
  /\ sub' = CleanupOf({s})
  /\ UNCHANGED <<hubVars, manager, chan, offerVars, viewers, closing, link, talkVars, jobVars,
                 pipeVars, faults>>

-----------------------------------------------------------------------------
(* The peer connection *)

LinkUp(s) ==
  /\ told[s] = "answer" /\ link[s] = "new" /\ s \in viewers
  /\ link' = [link EXCEPT ![s] = "up"]
  /\ UNCHANGED <<hubVars, manager, sub, chan, offerVars, viewers, closing, talkVars, jobVars,
                 pipeVars, faults>>

\* The network fails, or the integration has closed its end.
LinkLost(s) ==
  /\ told[s] = "answer" /\ link[s] # "broken"
  /\ IF closing[s] \in {"done", "failed"} THEN UNCHANGED faults ELSE Fault
  /\ link' = [link EXCEPT ![s] = "broken"]
  /\ UNCHANGED <<hubVars, manager, sub, chan, offerVars, viewers, closing, talkVars, jobVars,
                 pipeVars>>

\* state_changed sees failed or closed; expire_unconnected, 60 s after the
\* offer, sees a peer that never connected.
PeerGone(s) ==
  /\ s \in viewers
  /\ link[s] = "broken" \/ (link[s] = "new" /\ offer[s] = "done")
  /\ Pop({s})
  /\ UNCHANGED <<hubVars, manager, sub, chan, offerVars, link, talkVars, jobVars, pipeVars,
                 faults>>

-----------------------------------------------------------------------------
(* talkback.py *)

\* _context_valid for the channel of s and the session the microphone uses.
ContextValid(s, from) ==
  from = "current" /\ media = "live" /\ joining = None /\ active = chan[s]

At(s, k, l) == job' = [job EXCEPT ![s][k] = l]

\* Job k of s gets talkback.lock.
Turn(s, k) ==
  /\ ~TalkLocked /\ <<s, k>> \in Waiting
  /\ \A v \in Waiting : <<v, <<s, k>>>> \in queue => v = <<s, k>>
  /\ queue' = Without({<<s, k>>})

\* It waits for it, to start or to stop.
Waits(s, k, l) == At(s, k, l) /\ queue' = With(<<s, k>>)

\* disable: the gate closes at once and a start that waits is told.
Disabled(s) ==
  /\ gate' = (gate /\ owner # s)
  /\ reply' = IF owner = s /\ reply = "pending" THEN "error" ELSE reply

\* What _stop leaves, once stop-talk is sent.
Reset ==
  /\ owner' = None /\ gate' = FALSE /\ reply' = "none" /\ origin' = "none"
  /\ posted' = 0 /\ cool' = TRUE

\* The state the job of command k sends back on the data channel; what raised
\* leaves the state of a later command alone.
Answered(s, k, on, raised) ==
  /\ mail' = IF link[s] = "up" THEN [mail EXCEPT ![s] = Append(@, [id |-> k, on |-> on])]
             ELSE mail
  /\ enabled' = IF raised /\ k # micId[s] THEN enabled ELSE [enabled EXCEPT ![s] = on]

\* Commands arrive, several at once if they come in one packet: a stop closes
\* the gate before its job runs, and a command superseded before its job
\* begins does nothing else.  What a viewer that is gone is sent is ignored.
CommandsArrive(s) ==
  s \in viewers /\ HandedOver /\ \E n \in 1..Len(wire[s]) :
  LET seen == SubSeq(wire[s], 1, n)
      last == seen[n]
  IN /\ wire' = [wire EXCEPT ![s] = SubSeq(@, n + 1, Len(@))]
     /\ micId' = [micId EXCEPT ![s] = last.id]
     /\ Waits(s, last.id, IF last.on THEN "lock" ELSE "stop")
     /\ IF \A i \in 1..n : seen[i].on THEN UNCHANGED <<gate, reply>> ELSE Disabled(s)
     /\ UNCHANGED <<hubVars, manager, sub, chan, offerVars, viewers, closing, link, owner,
                    origin, posted, cool, enabled, mail, faults>>

\* The microphone is taken, by its own page too if a stop has only closed the
\* gate: a start that finds its own gate open (talkback.start returns at once)
\* does not happen, since a page stops before it starts again.
StartRefused(s) ==
  \/ owner # None
  \/ ~ContextValid(s, "current")
  \/ cool

\* talkback.start raises before it owns the microphone.
TalkRefused(s, k) ==
  /\ job[s][k] = "lock" /\ Turn(s, k)
  /\ StartRefused(s)
  /\ At(s, k, "none")
  /\ Answered(s, k, FALSE, TRUE)
  /\ UNCHANGED <<hubVars, manager, sub, chan, offerVars, viewers, closing, link, talkVars,
                 micId, wire, faults>>

\* talkback.start owns the microphone; a thread writes start-talk.
TalkStarts(s, k) ==
  /\ job[s][k] = "lock" /\ Turn(s, k)
  /\ ~StartRefused(s)
  /\ owner' = s /\ origin' = "current" /\ reply' = "pending"
  /\ At(s, k, "send")
  /\ UNCHANGED <<hubVars, manager, sub, chan, offerVars, viewers, closing, link, gate, posted,
                 cool, enabled, micId, pipeVars, faults>>

\* The thread is through: _start_in_context checks the session once more.
TalkSent(s, k) ==
  /\ job[s][k] \in {"send", "cut"}
  /\ At(s, k, IF job[s][k] = "send" /\ ContextValid(s, origin) THEN "wait" ELSE "undo")
  /\ UNCHANGED <<hubVars, manager, sub, chan, offerVars, viewers, closing, link, talkVars,
                 queue, enabled, micId, pipeVars, faults>>

\* The media reader sees the TLV 332 and the loop takes it.
TalkReply ==
  /\ reply = "pending" /\ origin = "current" /\ posted = 0
  /\ \/ reply' = "ok" /\ UNCHANGED faults
     \/ reply' = "error" /\ Fault
  /\ UNCHANGED <<hubVars, manager, sub, chan, offerVars, viewers, closing, link, owner, gate,
                 origin, posted, cool, jobVars, pipeVars>>

\* The callbacks of media_closed: _reply fails a start, _ended closes the gate
\* and, on the second channel, frees the microphone.
CallbackRuns ==
  /\ posted > 0
  /\ posted' = posted - 1
  /\ IF posted = 2
       THEN /\ reply' = IF reply = "pending" THEN "error" ELSE reply
            /\ UNCHANGED <<gate, owner, origin>>
       ELSE /\ gate' = FALSE /\ UNCHANGED reply
            /\ IF owner # None /\ chan[owner] = 2 THEN owner' = None /\ origin' = "none"
               ELSE UNCHANGED <<owner, origin>>
  /\ UNCHANGED <<hubVars, manager, sub, chan, offerVars, viewers, closing, link, cool, jobVars,
                 pipeVars, faults>>

\* (mutant: the command is not looked up again after talkback.start)
TurnedOnUnchecked(s, k) ==
  /\ At(s, k, "none")
  /\ gate' = TRUE
  /\ Answered(s, k, TRUE, FALSE)

\* talkback.start returns: the user may have thought better of it, and a stop
\* takes its place behind the jobs that wait.
TurnedOn(s, k) ==
  IF k = micId[s]
    THEN gate' = TRUE /\ At(s, k, "none") /\ Answered(s, k, TRUE, FALSE)
    ELSE /\ gate' = FALSE /\ UNCHANGED <<mail, enabled>>
         /\ At(s, k, IF Waiting = {} THEN "stopping" ELSE "stop")

\* The device accepted: the gate opens.
TalkOn(s, k) ==
  /\ job[s][k] = "wait" /\ reply = "ok" /\ ContextValid(s, origin)
  /\ queue' = IF k = micId[s] \/ Waiting = {} THEN queue ELSE With(<<s, k>>)
  /\ TurnedOn(s, k)
  /\ UNCHANGED <<hubVars, manager, sub, chan, offerVars, viewers, closing, link, owner, reply,
                 origin, posted, cool, micId, wire, faults>>

\* No answer in 4 s, a refusal, or the session changed: start undoes itself.
TalkFails(s, k) ==
  /\ job[s][k] = "wait"
  /\ \/ reply = "error" /\ UNCHANGED faults
     \/ reply = "ok" /\ ~ContextValid(s, origin) /\ UNCHANGED faults
     \/ reply = "pending" /\ Fault
  /\ At(s, k, "undo")
  /\ gate' = FALSE
  /\ UNCHANGED <<hubVars, manager, sub, chan, offerVars, viewers, closing, link, owner, reply,
                 origin, posted, cool, queue, enabled, micId, pipeVars>>

\* Job 0: no heartbeat for 3 s or an unusable session, with the gate open; or
\* the microphone is shown on and is not.
Alarmed(s) ==
  /\ s \in viewers /\ job[s][0] = "none" /\ HandedOver
  /\ \/ owner = s /\ gate /\ Fault
     \/ owner = s /\ gate /\ (~ContextValid(s, origin) \/ link[s] = "broken") /\ UNCHANGED faults
     \/ enabled[s] /\ (owner # s \/ ~gate) /\ UNCHANGED faults

\* It stops the microphone, at once if talkback.lock is free, and says so
\* under the latest identifier of the page.
AutoStop(s) ==
  /\ Alarmed(s)
  /\ Disabled(s)
  /\ IF TalkLocked THEN Waits(s, 0, "stop") /\ UNCHANGED <<mail, enabled>>
     ELSE /\ UNCHANGED queue
          /\ IF owner = s THEN At(s, 0, "stopping") /\ UNCHANGED <<mail, enabled>>
             ELSE Answered(s, micId[s], FALSE, FALSE) /\ UNCHANGED job
  /\ UNCHANGED <<hubVars, manager, sub, chan, offerVars, viewers, closing, link, owner, origin,
                 posted, cool, micId, wire>>

\* talkback.stop gets the lock: there may be nothing left to stop.
StopBegins(s, k) ==
  /\ job[s][k] = "stop" /\ Turn(s, k)
  /\ IF owner = s
       THEN At(s, k, "stopping") /\ gate' = FALSE /\ UNCHANGED <<mail, enabled>>
       ELSE At(s, k, "none") /\ Answered(s, IF k = 0 THEN micId[s] ELSE k, FALSE, FALSE)
            /\ UNCHANGED gate
  /\ UNCHANGED <<hubVars, manager, sub, chan, offerVars, viewers, closing, link, owner, reply,
                 origin, posted, cool, micId, wire, faults>>

\* _stop, of a stop or of a start that failed: stop-talk is written.
StopEnds(s, k) ==
  /\ job[s][k] \in {"undo", "stopping"}
  /\ Reset
  /\ At(s, k, "none")
  /\ Answered(s, IF k = 0 THEN micId[s] ELSE k, FALSE, job[s][k] = "undo")
  /\ UNCHANGED <<hubVars, manager, sub, chan, offerVars, viewers, closing, link, queue, micId,
                 wire, faults>>

\* 0.8 s pass: not while a task could run for the microphone.
CoolDown ==
  /\ cool /\ ~TalkLocked
  /\ Waiting = {}
  /\ cool' = FALSE
  /\ UNCHANGED <<hubVars, manager, sub, chan, offerVars, viewers, closing, link, owner, gate,
                 reply, origin, posted, jobVars, pipeVars, faults>>

-----------------------------------------------------------------------------
(* _close_viewer and close_all *)

\* What a cancelled job still does: _session_job lets the write finish, a
\* start that waits undoes itself, a stop under way completes.
Cut(at) == CASE at = "send" -> "cut" [] at = "wait" -> "undo"
             [] at \in {"cut", "undo", "stopping"} -> at [] OTHER -> "none"

\* The gate closes first and the jobs are cancelled.
CloseMic(s) ==
  /\ closing[s] = "mic"
  /\ closing' = [closing EXCEPT ![s] = "jobs"]
  /\ Disabled(s)
  /\ job' = [job EXCEPT ![s] = [k \in Ids |-> Cut(@[k])]]
  /\ queue' = Without({s} \X Ids)
  /\ UNCHANGED <<hubVars, manager, sub, chan, offerVars, viewers, link, owner, origin, posted,
                 cool, enabled, micId, pipeVars, faults>>

\* The jobs are over; talkback.stop.
CloseJobs(s) ==
  /\ closing[s] = "jobs" /\ ~TalkLocked
  /\ \A k \in Ids : job[s][k] = "none"
  /\ closing' = [closing EXCEPT ![s] = IF owner = s THEN "talk" ELSE "lease"]
  /\ UNCHANGED <<hubVars, manager, sub, chan, offerVars, viewers, link, talkVars, jobVars,
                 pipeVars, faults>>

CloseTalk(s) ==
  /\ closing[s] = "talk"
  /\ closing' = [closing EXCEPT ![s] = "lease"]
  /\ Reset
  /\ UNCHANGED <<hubVars, manager, sub, chan, offerVars, viewers, link, jobVars, pipeVars,
                 faults>>

\* hub.release, then the peer connection is closed.
CloseLease(s) ==
  /\ closing[s] = "lease"
  /\ GiveBack(s)
  /\ closing' = [closing EXCEPT ![s] = IF Last(s) THEN "join" ELSE "done"]
  /\ UNCHANGED <<manager, sub, chan, offerVars, viewers, link, talkVars, jobVars, pipeVars,
                 faults>>

\* close_all, called by hub.stop or when the camera entity is removed.
Unload ==
  /\ manager = "open" /\ Fault
  /\ manager' = "offers"
  /\ Cancel({s \in Sessions : offer[s] \in Running})
  /\ UNCHANGED <<hubVars, sub, chan, told, viewers, closing, link, talkVars, jobVars, pipeVars>>

UnloadCloses ==
  /\ manager = "offers" /\ \A s \in Sessions : offer[s] \notin Running
  /\ manager' = "viewers"
  /\ Pop(viewers)
  /\ UNCHANGED <<hubVars, sub, chan, offerVars, link, talkVars, jobVars, pipeVars, faults>>

UnloadEnds ==
  /\ manager = "viewers" /\ \A s \in Sessions : closing[s] \notin CloseRunning
  /\ manager' = "closed"
  /\ UNCHANGED <<hubVars, sub, chan, offerVars, viewers, closing, link, talkVars, jobVars,
                 pipeVars, faults>>

Hub == MediaUp \/ MediaLost \/ ZombieEnds \/ Join

OfferStep(s) ==
  \/ Offered(s) \/ Register(s) \/ Describe(s) \/ Acquire(s) \/ Acquired(s) \/ Answer(s)
  \/ OfferFails(s) \/ OfferGivesBack(s) \/ Unwound(s) \/ OfferEnds(s)
  \/ CleanupCancels(s) \/ CleanupCloses(s) \/ CleanupEnds(s) \/ OfferAbandoned(s)
  \/ LinkUp(s) \/ LinkLost(s) \/ PeerGone(s)

TalkStep(s, k) ==
  \/ TalkRefused(s, k) \/ TalkStarts(s, k) \/ TalkSent(s, k)
  \/ TalkOn(s, k) \/ TalkFails(s, k)
  \/ StopBegins(s, k) \/ StopEnds(s, k)

CloseStep(s) ==
  \/ CloseMic(s) \/ CloseJobs(s) \/ CloseTalk(s) \/ CloseLease(s)

RtcNext ==
  \/ Hub
  \/ \E s \in Sessions : OfferStep(s) \/ CommandsArrive(s) \/ AutoStop(s) \/ CloseStep(s)
  \/ \E s \in Sessions, k \in Ids : TalkStep(s, k)
  \/ TalkReply \/ CallbackRuns \/ CoolDown
  \/ Unload \/ UnloadCloses \/ UnloadEnds
=============================================================================
