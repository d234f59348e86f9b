------------------------------ MODULE MediaHub ------------------------------
(***************************************************************************)
(* The shared media session of one intercom (hub.py, class WelcomeEyeHub). *)
(*                                                                         *)
(* Consumers (viewers, HTTP readers, snapshots, output actions) are tasks  *)
(* of the Home Assistant event loop; each takes a lease with acquire and   *)
(* gives it back with release.  The first lease starts a media worker      *)
(* thread, the only reader of the device's media session; the last release *)
(* stops and joins it.  The worker never touches hub state that the loop   *)
(* owns: it posts callbacks, tagged with its generation, that the loop     *)
(* runs later, in order.  The executor thread of an output command, the    *)
(* doorbell trial, the microphone and the unload of the integration        *)
(* compete for the same hub.                                               *)
(*                                                                         *)
(* A step is the code between two awaits of a loop task, or between two    *)
(* blocking calls of a thread.                                             *)
(***************************************************************************)
EXTENDS Naturals, Sequences, FiniteSets

CONSTANTS
  Consumers,       \* the tasks that may hold a lease
  SingleAttempt,   \* those whose lease has single_session_attempt (ring photos)
  Http,            \* those that are HTTP handlers of _serve (hub.handlers)
  Channel2,        \* is the second source configured (hub.channel2 is not None)
  Variants,        \* the identities the entry may start with
  Rivals,          \* which competitors of the viewers act (a subset of RivalNames)
  SlowJoins,       \* may the 15 s join of a stopping worker time out
  Profiles,        \* number of media profiles of a device not identified as V1
  MaxWorkers,      \* bound: worker threads started in a behaviour
  MaxQueue         \* bound: posted callbacks not yet run by the loop

ASSUME ConsumersAssumption ==
  /\ SingleAttempt \subseteq Consumers
  /\ Http \subseteq Consumers
RivalNames == {"unlock", "target", "talk", "trial"}

ASSUME ConfigAssumption ==
  /\ Channel2 \in BOOLEAN
  /\ SlowJoins \in BOOLEAN
  /\ Variants \subseteq {"v1", "r001", "unknown"}
  /\ Rivals \subseteq RivalNames
ASSUME BoundsAssumption ==
  /\ Profiles \in Nat \ {0}
  /\ MaxWorkers \in Nat \ {0}
  /\ MaxQueue \in Nat \ {0}

VARIABLES
  pc,          \* where each consumer task is in acquire / release
  want,        \* the channel each consumer asked for
  consumers,   \* hub.consumers, the leases held
  lock,        \* hub.lock (asyncio.Lock) is held across an await
  activeCh,    \* hub._active_media_channel
  thread,      \* hub.thread: the last worker not yet joined, 0 for None
  workers,     \* the media worker threads started so far
  started,     \* how many of them were started
  generation,  \* hub.generation
  ready,       \* hub.ready (asyncio.Event)
  connected,   \* hub._media_connected
  error,       \* hub.error
  retryOk,     \* hub.media_retry_allowed
  queue,       \* what the loop will run, oldest first: callbacks posted by
               \* workers (call_soon_threadsafe) and wake-ups of ready.wait()
  stopPc,      \* where hub.stop is
  variant,     \* the identity of the device known so far
  reload,      \* the capability reload: none, pending or scheduled
  ctl,         \* control.lock: free, or who holds it
  unlockPc,    \* where the executor thread of a main-panel output command is
  auxLease,    \* the lease of the second-panel output action (at most one)
  mainTalk,    \* talkback.owner is set on the main channel
  trialPc      \* where the V1 doorbell trial is

taskVars   == <<pc, want>>
leaseVars  == <<consumers, lock, activeCh, retryOk>>
workerVars == <<thread, workers, started, generation>>
stateVars  == <<ready, connected, error>>
identVars  == <<variant, reload>>
rivalVars  == <<ctl, unlockPc, auxLease, mainTalk, trialPc>>
vars == <<taskVars, leaseVars, workerVars, stateVars, queue, stopPc,
          identVars, rivalVars>>

-----------------------------------------------------------------------------
(* Types and helpers *)

Channels == {1, 2}
WorkerIds == 1..MaxWorkers
Models == {"v1", "r001"}
WorkerPcs == {"dead", "loop", "next", "connect", "login", "format", "live",
              "finish", "decide", "failed", "backoff", "exit"}

\* A worker thread: its stop event, its generation, the channel and the index
\* of the media profile it tries, found_video, v1_format, and whether the try
\* block of its session was left by a return.
Worker == [pc: WorkerPcs, stop: BOOLEAN, gen: Nat, ch: Channels,
           prof: 0..Profiles, found: BOOLEAN, v1: BOOLEAN, quit: BOOLEAN]

Dead == [pc |-> "dead", stop |-> FALSE, gen |-> 0, ch |-> 1, prof |-> 0,
         found |-> FALSE, v1 |-> FALSE, quit |-> FALSE]

\* A posted callback: _state with its error, _observe_device_model with the
\* model it found, or a wake-up.
Errors == {"none", "auth", "other"}
Event == [gen: Nat, kind: {"up", "down", "wake"}, arg: Errors]
         \cup [gen: Nat, kind: {"ident"}, arg: Models]

WakeEvent == [gen |-> 0, kind |-> "wake", arg |-> "none"]

stopped == stopPc # "running"

Alive(w) == workers[w].pc # "dead"
ThreadAlive == thread # 0 /\ Alive(thread)

\* The worker holds a socket to the device: self.session is published and not
\* yet cleared by _finish_session.
InSession(w) == workers[w].pc \in {"connect", "login", "format", "live", "finish"}

\* hub.session is not None
SessionOpen == \E w \in WorkerIds : InSession(w)

\* _update_media_retry_policy, for the leases ls on channel ch
RetryAllowed(ls, ch) == ch = 1 /\ \E c \in ls : c \notin SingleAttempt

\* _profile_order: how many profiles a worker may try on channel ch
ProfileCount(ch) == IF ch = 2 \/ variant = "v1" THEN 1 ELSE Profiles

\* the observable part of _schedule_capability_reload, with leases ls held
Scheduled(r, ls) == IF r = "pending" /\ ls = {} /\ ~stopped THEN "scheduled" ELSE r

\* hub.handlers is not empty
HandlersBusy == \E h \in Http : pc[h] # "idle"

Init ==
  /\ pc = [c \in Consumers |-> "idle"]
  /\ want = [c \in Consumers |-> 1]
  /\ consumers = {}
  /\ lock = FALSE
  /\ activeCh = 1
  /\ thread = 0
  /\ workers = [w \in WorkerIds |-> Dead]
  /\ started = 0
  /\ generation = 0
  /\ ready = FALSE
  /\ connected = FALSE
  /\ error = "none"
  /\ retryOk = TRUE
  /\ queue = <<>>
  /\ stopPc = "running"
  /\ variant \in Variants
  /\ reload = "none"
  /\ ctl = "free"
  /\ unlockPc = "idle"
  /\ auxLease = {}
  /\ mainTalk = FALSE
  /\ trialPc = "idle"

Goto(c, l) == pc' = [pc EXCEPT ![c] = l]

-----------------------------------------------------------------------------
(* acquire *)

TrialActive == trialPc = "run"

\* acquire, up to its first await: refused at once during a doorbell trial.
Acquire(c, ch) ==
  /\ pc[c] = "idle" /\ c \notin auxLease
  /\ ~TrialActive
  /\ c \in Http => ch = 1
  /\ Goto(c, "lock")
  /\ want' = [want EXCEPT ![c] = ch]
  /\ UNCHANGED <<leaseVars, workerVars, stateVars, queue, stopPc, identVars, rivalVars>>

\* (mutant: a lease without a worker does not keep the other channel out)
ChannelBusyWorkerOnly(ch) == ThreadAlive /\ activeCh # ch

\* The conditions under which the locked section of acquire raises.
ChannelBusy(ch) == (consumers # {} \/ ThreadAlive) /\ activeCh # ch

\* (mutant: control.lock is not asked)
SecondChannelBusyUnlocked(c) == mainTalk \/ HandlersBusy

SecondChannelBusy(c) ==
  \/ ctl # "free" /\ c \notin auxLease      \* control.lock.acquire failed
  \/ mainTalk                               \* talkback.owner
  \/ HandlersBusy                           \* self.handlers

\* (mutant: hub.stopped is checked before the lock only)
RefusedButNotStopped(c) ==
  \/ error = "auth"
  \/ ThreadAlive /\ workers[thread].stop
  \/ ChannelBusy(want[c])

Refused(c) ==
  \/ stopped
  \/ TrialActive
  \/ error = "auth"
  \/ ThreadAlive /\ workers[thread].stop
  \/ want[c] = 2 /\ ~Channel2
  \/ ChannelBusy(want[c])
  \/ want[c] = 2 /\ SecondChannelBusy(c)

AcquireRefused(c) ==
  /\ pc[c] = "lock" /\ ~lock
  /\ Refused(c)
  /\ Goto(c, "idle")
  /\ UNCHANGED <<want, leaseVars, workerVars, stateVars, queue, stopPc, identVars, rivalVars>>

\* What acquire does once ready is set: it returns, or raises and releases.
Outcome == IF stopped \/ error # "none" \/ ~connected THEN "relock" ELSE "held"

\* The lease is recorded and the running worker is reused; if ready is set
\* there is nothing to wait for.
AcquireShared(c) ==
  /\ pc[c] = "lock" /\ ~lock
  /\ ~Refused(c)
  /\ ThreadAlive
  /\ activeCh' = want[c]
  /\ consumers' = consumers \cup {c}
  /\ retryOk' = RetryAllowed(consumers', activeCh')
  /\ Goto(c, IF ready THEN Outcome ELSE "ready")
  /\ UNCHANGED <<want, lock, workerVars, stateVars, queue, stopPc, identVars, rivalVars>>

\* The lease is recorded and a worker is started for it.
AcquireStart(c) ==
  /\ pc[c] = "lock" /\ ~lock
  /\ ~Refused(c)
  /\ ~ThreadAlive
  /\ started < MaxWorkers
  /\ activeCh' = want[c]
  /\ consumers' = consumers \cup {c}
  /\ retryOk' = RetryAllowed(consumers', activeCh')
  /\ generation' = generation + 1
  /\ started' = started + 1
  /\ thread' = started'
  /\ workers' = [workers EXCEPT ![started'] =
                   [Dead EXCEPT !.pc = "loop", !.gen = generation', !.ch = activeCh']]
  /\ ready' = FALSE
  /\ error' = "none"
  /\ Goto(c, "ready")
  /\ UNCHANGED <<want, lock, connected, queue, stopPc, identVars, rivalVars>>

\* ready.set(): the tasks that wait are resumed after what the loop has queued.
WakeWaiters(q) ==
  IF \E c \in Consumers : pc[c] = "ready"
    THEN /\ queue' = Append(q, WakeEvent)
         /\ pc' = [c \in Consumers |-> IF pc[c] = "ready" THEN "woken" ELSE pc[c]]
    ELSE queue' = q /\ UNCHANGED pc

\* ready.wait() returns in the tasks that were woken.
AcquireReturn ==
  /\ queue # <<>> /\ Head(queue).kind = "wake"
  /\ pc' = [c \in Consumers |-> IF pc[c] = "woken" THEN Outcome ELSE pc[c]]
  /\ queue' = Tail(queue)
  /\ UNCHANGED <<want, leaseVars, workerVars, stateVars, stopPc, identVars, rivalVars>>

\* The task is cancelled, or wait_for times out, in one of acquire's awaits.
AcquireAbort(c) ==
  /\ pc[c] \in {"lock", "ready", "woken"}
  /\ Goto(c, IF pc[c] = "lock" THEN "idle" ELSE "relock")
  /\ UNCHANGED <<want, leaseVars, workerVars, stateVars, queue, stopPc, identVars, rivalVars>>

-----------------------------------------------------------------------------
(* release and the halt of the worker *)

Release(c) ==
  /\ pc[c] = "held"
  /\ Goto(c, "relock")
  /\ UNCHANGED <<want, leaseVars, workerVars, stateVars, queue, stopPc, identVars, rivalVars>>

\* (mutant: the worker is not told to stop)
HaltBeginUntold ==
  /\ generation' = generation + 1
  /\ connected' = FALSE /\ error' = "none" /\ ready' = TRUE
  /\ UNCHANGED <<thread, workers, started>>

\* _halt_media up to the join: the worker's stop event is set, the generation
\* moves on so that what the worker posted is dropped, readiness is revoked.
HaltBegin ==
  /\ workers' = IF ThreadAlive THEN [workers EXCEPT ![thread].stop = TRUE] ELSE workers
  /\ generation' = generation + 1
  /\ connected' = FALSE
  /\ error' = "none"
  /\ ready' = TRUE
  /\ UNCHANGED <<thread, started>>

\* _release of a lease that is not the last one, or that is already gone.
ReleaseShared(c) ==
  /\ pc[c] = "relock" /\ ~lock
  /\ consumers # {c}
  /\ consumers' = consumers \ {c}
  /\ retryOk' = IF c \in consumers THEN RetryAllowed(consumers', activeCh) ELSE retryOk
  /\ reload' = IF c \in consumers THEN Scheduled(reload, consumers') ELSE reload
  /\ Goto(c, "idle")
  /\ UNCHANGED <<want, lock, activeCh, workerVars, stateVars, queue, stopPc, variant, rivalVars>>

\* (mutant: the last release forgets to halt the worker)
ReleaseLastUnhalted(c) ==
  /\ pc[c] = "relock" /\ ~lock
  /\ consumers = {c}
  /\ consumers' = {}
  /\ retryOk' = RetryAllowed({}, activeCh)
  /\ Goto(c, "idle")
  /\ UNCHANGED <<want, lock, activeCh, workerVars, stateVars, queue, stopPc, identVars,
                 rivalVars>>

\* _release of the last lease: hub.lock is held while the worker is joined.
ReleaseLast(c) ==
  /\ pc[c] = "relock" /\ ~lock
  /\ consumers = {c}
  /\ consumers' = {}
  /\ retryOk' = RetryAllowed({}, activeCh)
  /\ lock' = TRUE
  /\ HaltBegin
  /\ Goto(c, "join")
  /\ UNCHANGED <<want, activeCh, queue, stopPc, identVars, rivalVars>>

\* (mutant: the lock is kept)
ReleaseJoinedLocked(c) ==
  /\ pc[c] = "join" /\ ~ThreadAlive
  /\ thread' = 0
  /\ connected' = FALSE /\ error' = "none" /\ ready' = TRUE
  /\ activeCh' = 1
  /\ reload' = Scheduled(reload, consumers)
  /\ Goto(c, "idle")
  /\ UNCHANGED <<want, consumers, lock, retryOk, workers, started, generation, queue,
                 stopPc, variant, rivalVars>>

\* The join returned with the worker gone; _release resets the channel and
\* gives a pending capability reload its chance.
ReleaseJoined(c) ==
  /\ pc[c] = "join" /\ ~ThreadAlive
  /\ thread' = 0
  /\ connected' = FALSE /\ error' = "none" /\ ready' = TRUE
  /\ activeCh' = 1
  /\ lock' = FALSE
  /\ reload' = Scheduled(reload, consumers)
  /\ Goto(c, "idle")
  /\ UNCHANGED <<want, consumers, retryOk, workers, started, generation, queue,
                 stopPc, variant, rivalVars>>

\* (mutant: hub.thread is forgotten although the worker is alive)
ReleaseJoinFailedForgets(c) ==
  /\ SlowJoins
  /\ pc[c] = "join" /\ ThreadAlive
  /\ thread' = 0 /\ lock' = FALSE
  /\ Goto(c, "idle")
  /\ UNCHANGED <<want, consumers, activeCh, retryOk, workers, started, generation,
                 stateVars, queue, stopPc, identVars, rivalVars>>

\* _halt_media raised with the worker alive (15 s elapsed, or the session was
\* cleared under interrupt_read): the rest of _release is skipped.
ReleaseJoinFailed(c) ==
  /\ SlowJoins
  /\ pc[c] = "join" /\ ThreadAlive
  /\ lock' = FALSE
  /\ Goto(c, "idle")
  /\ UNCHANGED <<want, consumers, activeCh, retryOk, workerVars, stateVars,
                 queue, stopPc, identVars, rivalVars>>

-----------------------------------------------------------------------------
(* The media worker thread (_worker, _finish_session) *)

Emit(w, kind, arg) ==
  /\ Len(queue) < MaxQueue
  /\ queue' = Append(queue, [gen |-> workers[w].gen, kind |-> kind, arg |-> arg])

Become(w, r) == workers' = [workers EXCEPT ![w] = r]

WorkerUnchanged ==
  UNCHANGED <<taskVars, leaseVars, thread, started, generation, stateVars,
              stopPc, identVars, rivalVars>>

\* Head of the while loop: stop, or compute the profile order for the channel
\* that is active now.
WorkerLoop(w) ==
  /\ workers[w].pc = "loop"
  /\ Become(w, IF workers[w].stop THEN Dead
               ELSE [workers[w] EXCEPT !.pc = "next", !.ch = activeCh,
                       !.prof = ProfileCount(activeCh), !.found = FALSE, !.v1 = FALSE])
  /\ WorkerUnchanged /\ UNCHANGED queue

\* Head of the for loop: stop, or open a session for the next profile.  prof
\* counts the profiles left to try.
WorkerNext(w) ==
  /\ workers[w].pc = "next"
  /\ Become(w, IF workers[w].stop THEN Dead
               ELSE [workers[w] EXCEPT !.pc = "connect", !.prof = @ - 1, !.v1 = FALSE])
  /\ WorkerUnchanged /\ UNCHANGED queue

\* session.connect() returned: the login is accepted.
WorkerLogin(w) ==
  /\ workers[w].pc = "connect"
  /\ Become(w, [workers[w] EXCEPT !.pc = "login"])
  /\ WorkerUnchanged /\ UNCHANGED queue

\* AuthenticationError: posted to the loop, and the worker returns after the
\* cleanup of its session.
WorkerRefused(w) ==
  /\ workers[w].pc = "connect"
  /\ Emit(w, "down", "auth")
  /\ Become(w, [workers[w] EXCEPT !.pc = "finish", !.quit = TRUE])
  /\ WorkerUnchanged

\* TLV 203 announces the stream format; it may identify the device.  (Posted
\* again with the first video, where it changes nothing any more.)
WorkerFormat(w, m) ==
  /\ workers[w].pc = "login"
  /\ IF m # "other" /\ variant = "unknown" THEN Emit(w, "ident", m) ELSE UNCHANGED queue
  /\ Become(w, [workers[w] EXCEPT !.pc = "format", !.v1 = (m = "v1")])
  /\ WorkerUnchanged

\* The first accepted video packet: media is up.
WorkerVideo(w) ==
  /\ workers[w].pc = "format"
  /\ Emit(w, "up", "none")
  /\ Become(w, [workers[w] EXCEPT !.pc = "live", !.found = TRUE])
  /\ WorkerUnchanged

\* Any other exception in the try block of the session.
WorkerError(w) ==
  /\ workers[w].pc \in {"connect", "login", "format", "live"}
  /\ IF workers[w].found /\ ~workers[w].stop
       THEN Emit(w, "down", "other") ELSE UNCHANGED queue
  /\ Become(w, [workers[w] EXCEPT !.pc = "finish"])
  /\ WorkerUnchanged

\* The stop event is seen between two reads, or while waiting to reopen a V1:
\* the worker returns, or the read loop ends, through the cleanup.
WorkerStopSeen(w) ==
  /\ workers[w].pc \in {"connect", "login", "format", "live"}
  /\ workers[w].stop
  /\ \E returns \in IF workers[w].pc = "connect" THEN {TRUE} ELSE BOOLEAN :
       Become(w, [workers[w] EXCEPT !.pc = "finish", !.quit = returns])
  /\ WorkerUnchanged /\ UNCHANGED queue

\* _finish_session: talk, pending output, Stop AV, session stop, TCP close.
WorkerFinish(w) ==
  /\ workers[w].pc = "finish"
  /\ Become(w, IF workers[w].quit THEN Dead ELSE [workers[w] EXCEPT !.pc = "decide"])
  /\ WorkerUnchanged /\ UNCHANGED queue

\* Ring-only leases: no profile cycling and no reconnection.
WorkerGiveUp(w) ==
  /\ workers[w].pc = "decide"
  /\ ~retryOk
  /\ Emit(w, "down", "other")
  /\ Become(w, [workers[w] EXCEPT !.pc = "exit"])
  /\ WorkerUnchanged

\* The thread ends.
WorkerExit(w) ==
  /\ workers[w].pc = "exit"
  /\ Become(w, Dead)
  /\ WorkerUnchanged /\ UNCHANGED queue

WorkerDecideRetries(w) ==
  /\ workers[w].pc = "decide"
  /\ Become(w, [workers[w] EXCEPT !.pc =
       IF workers[w].found \/ workers[w].v1 \/ workers[w].prof = 0
       THEN "failed" ELSE "next"])
  /\ WorkerUnchanged /\ UNCHANGED queue

\* Leave the for loop, or go to the next profile.
WorkerDecide(w) ==
  /\ workers[w].pc = "decide"
  /\ retryOk
  /\ Become(w, [workers[w] EXCEPT !.pc =
       IF workers[w].found \/ workers[w].v1 \/ workers[w].prof = 0
       THEN "failed" ELSE "next"])
  /\ WorkerUnchanged /\ UNCHANGED queue

\* After the for loop: no profile gave video.
WorkerFailed(w) ==
  /\ workers[w].pc = "failed"
  /\ IF workers[w].stop
       THEN Become(w, Dead) /\ UNCHANGED queue
       ELSE /\ Become(w, [workers[w] EXCEPT !.pc = "backoff"])
            /\ IF workers[w].found THEN UNCHANGED queue ELSE Emit(w, "down", "other")
  /\ WorkerUnchanged

\* stop_event.wait(delay)
WorkerBackoff(w) ==
  /\ workers[w].pc = "backoff"
  /\ Become(w, IF workers[w].stop THEN Dead ELSE [workers[w] EXCEPT !.pc = "loop"])
  /\ WorkerUnchanged /\ UNCHANGED queue

WorkerStep(w) ==
  \/ WorkerLoop(w) \/ WorkerNext(w)
  \/ WorkerLogin(w) \/ WorkerRefused(w)
  \/ \E m \in Models \cup {"other"} : WorkerFormat(w, m)
  \/ WorkerVideo(w) \/ WorkerError(w) \/ WorkerStopSeen(w)
  \/ WorkerFinish(w) \/ WorkerGiveUp(w) \/ WorkerExit(w) \/ WorkerDecide(w)
  \/ WorkerFailed(w) \/ WorkerBackoff(w)

-----------------------------------------------------------------------------
(* Callbacks the loop runs for the worker *)

\* (mutant: callbacks of a halted worker still count)
CurrentAnyGeneration(e) == e.kind # "wake" /\ ~stopped

Current(e) == e.gen = generation /\ ~stopped

\* _dispatch drops what an earlier generation posted.
DispatchStale ==
  /\ queue # <<>> /\ ~Current(Head(queue)) /\ Head(queue).kind # "wake"
  /\ queue' = Tail(queue)
  /\ UNCHANGED <<taskVars, leaseVars, workerVars, stateVars, stopPc, identVars, rivalVars>>

\* _state
DispatchState ==
  /\ queue # <<>> /\ Current(Head(queue))
  /\ Head(queue).kind \in {"up", "down"}
  /\ connected' = (Head(queue).kind = "up")
  /\ error' = Head(queue).arg
  /\ ready' = TRUE
  /\ WakeWaiters(Tail(queue))
  /\ UNCHANGED <<want, leaseVars, workerVars, stopPc, identVars, rivalVars>>

\* _observe_device_model: an identity, once established, never changes; the
\* first one asks for a reload of the entry.
DispatchIdent ==
  /\ queue # <<>> /\ Current(Head(queue))
  /\ Head(queue).kind = "ident"
  /\ IF variant = "unknown"
       THEN /\ variant' = Head(queue).arg
            /\ reload' = IF reload = "none" THEN Scheduled("pending", consumers) ELSE reload
       ELSE UNCHANGED identVars
  /\ queue' = Tail(queue)
  /\ UNCHANGED <<taskVars, leaseVars, workerVars, stateVars, stopPc, rivalVars>>

Dispatch == DispatchStale \/ DispatchState \/ DispatchIdent \/ AcquireReturn

-----------------------------------------------------------------------------
(* stop: unload of the entry, also what a capability reload does first *)

StopBegin ==
  /\ stopPc = "running"
  /\ stopPc' = "draining"
  /\ ready' = TRUE
  /\ WakeWaiters(queue)
  /\ UNCHANGED <<want, leaseVars, workerVars, connected, error, identVars, rivalVars>>

\* trial.close, the captures and the HTTP handlers are drained before the lock
\* is taken; then every lease is dropped and the worker is halted.
StopHalt ==
  /\ stopPc = "draining" /\ ~lock
  /\ ~TrialActive
  /\ ~HandlersBusy
  /\ stopPc' = "join"
  /\ lock' = TRUE
  /\ consumers' = {}
  /\ HaltBegin
  /\ UNCHANGED <<taskVars, activeCh, retryOk, queue, identVars, rivalVars>>

StopJoined ==
  /\ stopPc = "join" /\ ~ThreadAlive
  /\ stopPc' = "stopped"
  /\ thread' = 0
  /\ connected' = FALSE /\ error' = "none" /\ ready' = TRUE
  /\ lock' = FALSE
  /\ UNCHANGED <<taskVars, consumers, activeCh, retryOk, workers, started, generation,
                 queue, identVars, rivalVars>>

StopJoinFailed ==
  /\ SlowJoins
  /\ stopPc = "join" /\ ThreadAlive
  /\ stopPc' = "stopped"
  /\ lock' = FALSE
  /\ UNCHANGED <<taskVars, consumers, activeCh, retryOk, workerVars, stateVars,
                 queue, identVars, rivalVars>>

-----------------------------------------------------------------------------
(* Rivals: output commands, microphone, doorbell trial *)

RivalUnchanged ==
  UNCHANGED <<want, consumers, activeCh, retryOk, workerVars, stateVars, queue,
              stopPc, identVars>>

\* unlock (executor thread): the non-blocking acquire of control.lock.
UnlockLock ==
  /\ "unlock" \in Rivals
  /\ unlockPc = "idle" /\ ctl = "free"
  /\ ctl' = "main" /\ unlockPc' = "locked"
  /\ RivalUnchanged /\ UNCHANGED <<pc, lock, auxLease, mainTalk, trialPc>>

\* control.closed: set by stop while it drains, before it halts the media.
ControlClosed == IF stopPc = "draining" THEN BOOLEAN ELSE {stopped}

\* unlock refuses while the second panel is active, otherwise it goes on to
\* open a session and send the command.
UnlockCheck ==
  /\ unlockPc = "locked"
  /\ \E closed \in ControlClosed :
       IF closed \/ activeCh # 1
         THEN unlockPc' = "idle" /\ ctl' = "free"
         ELSE unlockPc' = "sending" /\ UNCHANGED ctl
  /\ RivalUnchanged /\ UNCHANGED <<pc, lock, auxLease, mainTalk, trialPc>>

UnlockDone ==
  /\ unlockPc = "sending"
  /\ unlockPc' = "idle" /\ ctl' = "free"
  /\ RivalUnchanged /\ UNCHANGED <<pc, lock, auxLease, mainTalk, trialPc>>

\* unlock_target of the second panel: holds control.lock for the whole action
\* and acquires channel 2 with a lease of its own.
TargetBegin(c) ==
  /\ "target" \in Rivals /\ Channel2
  /\ c \notin SingleAttempt \cup Http
  /\ pc[c] = "idle" /\ auxLease = {}
  /\ ctl = "free"
  /\ ~stopped /\ ~TrialActive
  /\ ctl' = "aux" /\ auxLease' = {c}
  /\ want' = [want EXCEPT ![c] = 2]
  /\ Goto(c, "lock")
  /\ UNCHANGED <<leaseVars, workerVars, stateVars, queue, stopPc, identVars,
                 unlockPc, mainTalk, trialPc>>

\* The action's acquire and release are over.
TargetEnd(c) ==
  /\ auxLease = {c} /\ pc[c] = "idle"
  /\ ctl' = "free" /\ auxLease' = {}
  /\ RivalUnchanged /\ UNCHANGED <<pc, lock, unlockPc, mainTalk, trialPc>>

\* Talkback.start on the main channel: _context_valid, then the owner is set.
TalkBegin ==
  /\ "talk" \in Rivals
  /\ ~mainTalk
  /\ activeCh = 1 /\ connected /\ SessionOpen
  /\ mainTalk' = TRUE
  /\ RivalUnchanged /\ UNCHANGED <<pc, lock, ctl, unlockPc, auxLease, trialPc>>

\* Talkback.stop by its owner; on the main channel the end of the media session
\* alone does not clear the owner.
TalkEnd ==
  /\ mainTalk
  /\ mainTalk' = FALSE
  /\ RivalUnchanged /\ UNCHANGED <<pc, lock, ctl, unlockPc, auxLease, trialPc>>

\* ExperimentalDiagnostics._busy, the part of it this module has
TrialBusy == consumers # {} \/ SessionOpen \/ ThreadAlive

\* V1DoorbellTrial.start: control.lock first, then hub.lock.
TrialClaim ==
  /\ "trial" \in Rivals
  /\ trialPc = "idle" /\ variant = "v1"
  /\ ~stopped /\ ~lock /\ ~TrialBusy
  /\ ctl = "free"
  /\ ctl' = "trial" /\ trialPc' = "claim"
  /\ RivalUnchanged /\ UNCHANGED <<pc, lock, unlockPc, auxLease, mainTalk>>

\* (mutant: the device is not checked again once hub.lock is obtained)
TrialEnterUnchecked ==
  /\ trialPc = "claim" /\ ~lock
  /\ IF stopped
       THEN trialPc' = "idle" /\ ctl' = "free" /\ UNCHANGED lock
       ELSE trialPc' = "run" /\ lock' = TRUE /\ UNCHANGED ctl
  /\ RivalUnchanged /\ UNCHANGED <<pc, unlockPc, auxLease, mainTalk>>

\* hub.lock obtained: run with both locks held, or give both back.
TrialEnter ==
  /\ trialPc = "claim" /\ ~lock
  /\ IF stopped \/ TrialBusy
       THEN trialPc' = "idle" /\ ctl' = "free" /\ UNCHANGED lock
       ELSE trialPc' = "run" /\ lock' = TRUE /\ UNCHANGED ctl
  /\ RivalUnchanged /\ UNCHANGED <<pc, unlockPc, auxLease, mainTalk>>

\* _run_owned: the trial's own session is closed, both locks are released.
TrialEnd ==
  /\ trialPc = "run"
  /\ trialPc' = "idle" /\ lock' = FALSE /\ ctl' = "free"
  /\ RivalUnchanged /\ UNCHANGED <<pc, unlockPc, auxLease, mainTalk>>

RivalStep ==
  \/ UnlockLock \/ UnlockCheck \/ UnlockDone
  \/ \E c \in Consumers : TargetBegin(c) \/ TargetEnd(c)
  \/ TalkBegin \/ TalkEnd
  \/ TrialClaim \/ TrialEnter \/ TrialEnd

-----------------------------------------------------------------------------

AcquireStep(c) ==
  \/ \E ch \in Channels : Acquire(c, ch)
  \/ AcquireRefused(c) \/ AcquireShared(c) \/ AcquireStart(c)
  \/ AcquireAbort(c)

ReleaseStep(c) ==
  \/ Release(c)
  \/ ReleaseShared(c) \/ ReleaseLast(c) \/ ReleaseJoined(c) \/ ReleaseJoinFailed(c)

StopStep == StopBegin \/ StopHalt \/ StopJoined \/ StopJoinFailed

Next ==
  \/ \E c \in Consumers : AcquireStep(c) \/ ReleaseStep(c)
  \/ \E w \in WorkerIds : WorkerStep(w)
  \/ Dispatch
  \/ StopStep
  \/ RivalStep

Spec == Init /\ [][Next]_vars

-----------------------------------------------------------------------------
(* Fairness                                                                *)
(*                                                                         *)
(* asyncio runs every ready task, and asyncio.Lock wakes its waiters in    *)
(* order of arrival: a task that waits for hub.lock gets it whenever the   *)
(* lock is free again and again.  Every socket call of the worker has a    *)
(* time limit, so a session that is not up fails in the end; one that      *)
(* shows video may last for ever.  A viewer may keep its lease for ever,   *)
(* except an HTTP handler, which stop cancels; ready.wait() has a limit of *)
(* 38 s.                                                                   *)

TakeLock(c) == AcquireRefused(c) \/ AcquireShared(c) \/ AcquireStart(c)
WaitTimeout(c) == pc[c] = "ready" /\ AcquireAbort(c)
DropLease(c) == ReleaseShared(c) \/ ReleaseLast(c)
EndHalt(c) == ReleaseJoined(c) \/ ReleaseJoinFailed(c)
CancelHandler(c) == stopped /\ c \in Http /\ Release(c)
WorkerProgress(w) == (workers[w].pc # "live" \/ workers[w].stop) /\ WorkerStep(w)

FairSpec ==
  /\ Spec
  /\ \A c \in Consumers :
       /\ SF_vars(TakeLock(c)) /\ WF_vars(WaitTimeout(c))
       /\ SF_vars(DropLease(c)) /\ WF_vars(EndHalt(c))
       /\ WF_vars(CancelHandler(c)) /\ WF_vars(TargetEnd(c))
  /\ \A w \in WorkerIds : WF_vars(WorkerProgress(w))
  /\ WF_vars(Dispatch)
  /\ SF_vars(StopHalt) /\ WF_vars(StopJoined \/ StopJoinFailed)
  /\ WF_vars(UnlockCheck) /\ WF_vars(UnlockDone)
  /\ SF_vars(TrialEnter) /\ WF_vars(TrialEnd)

-----------------------------------------------------------------------------
(* Properties *)

TypeOK ==
  /\ pc \in [Consumers -> {"idle", "lock", "ready", "woken", "held", "relock", "join"}]
  /\ want \in [Consumers -> Channels]
  /\ consumers \subseteq Consumers
  /\ lock \in BOOLEAN
  /\ activeCh \in Channels
  /\ thread \in 0..started
  /\ workers \in [WorkerIds -> Worker]
  /\ started \in 0..MaxWorkers
  /\ generation \in Nat
  /\ ready \in BOOLEAN /\ connected \in BOOLEAN
  /\ error \in Errors
  /\ retryOk \in BOOLEAN
  /\ queue \in Seq(Event)
  /\ stopPc \in {"running", "draining", "join", "stopped"}
  /\ variant \in {"v1", "r001", "unknown"}
  /\ reload \in {"none", "pending", "scheduled"}
  /\ ctl \in {"free", "main", "aux", "trial"}
  /\ unlockPc \in {"idle", "locked", "sending"}
  /\ auxLease \subseteq Consumers
  /\ mainTalk \in BOOLEAN
  /\ trialPc \in {"idle", "claim", "run"}

\* There is one media session at most: no worker thread is alive besides the
\* one hub.thread names, whatever joins timed out and restarts came after.
OneMediaWorker == \A w \in WorkerIds : Alive(w) => w = thread

\* "Video exists only while a consumer owns it" (hub.py:1): a worker that was
\* not told to stop has a lease to work for.
SessionNeedsLease ==
  \A w \in WorkerIds : Alive(w) /\ ~workers[w].stop => consumers # {}

\* Every lease, and the live worker, are for the channel that is active: a
\* viewer is never given the other panel's video, not even by a reused worker.
ChannelExclusive ==
  /\ \A c \in consumers : want[c] = activeCh
  /\ \A w \in WorkerIds : Alive(w) => workers[w].ch = activeCh

\* While the second panel holds the media session, no command is being sent to
\* the main panel's outputs and no microphone is open towards it ("neither can
\* overtake the other", hub.py:492-494).
SecondPanelExclusive ==
  activeCh = 2 /\ consumers # {} => unlockPc # "sending" /\ ~mainTalk

\* The doorbell trial has the device for itself until it ends.
TrialExclusive ==
  trialPc = "run" => consumers = {} /\ \A w \in WorkerIds : ~Alive(w)

Announced(kind) ==
  \E i \in DOMAIN queue : queue[i].kind = kind /\ queue[i].gen = generation

\* The worker of this generation shows video.
Showing ==
  ThreadAlive /\ workers[thread].pc = "live" /\ workers[thread].gen = generation

\* acquire takes "ready and connected" for video (hub.py:536-542), and both are
\* set by callbacks of a worker that went on meanwhile: whenever they are set,
\* the worker of this generation shows video, or the callback that says it is
\* lost is on its way.  (connected alone promises less: a start clears ready
\* and not connected.  A hub that unloads no longer listens.)
ReadyIsLive ==
  ready /\ connected /\ ~stopped =>
    /\ ThreadAlive => ~workers[thread].stop
    /\ Announced("down") \/ Showing

\* "Apply a newly identified model once, after the current consumers release"
\* (hub.py:309): with no lease and nobody in the middle of a release, no
\* reload is left pending.
ReloadApplied == reload = "pending" /\ consumers = {} /\ ~lock => stopped

\* "A live viewer/control/manual snapshot retains the existing retry policy"
\* (hub.py:589): as long as such a lease of the main channel is held, there is
\* a worker that reconnects, unless the device refused the credentials.
RetryRetained ==
  \A c \in consumers \ SingleAttempt :
    pc[c] = "held" /\ want[c] = 1 /\ ~stopped =>
      ThreadAlive \/ error = "auth" \/ \E i \in DOMAIN queue : queue[i].arg = "auth"

\* The unload of the entry comes to its end, whoever holds leases or locks.
StopCompletes == stopPc = "draining" ~> stopPc = "stopped"

\* A device nobody uses is let go, unless somebody takes it again first.
DeviceReleased ==
  consumers = {} ~> (consumers # {} \/ \A w \in WorkerIds : ~Alive(w))

\* A task that asked for video gets an answer: no cycle of waits on hub.lock,
\* control.lock, the join and the worker.  (OutOfWorkers: the bound on the
\* worker threads, not the code, refuses to start one.)
OutOfWorkers == started = MaxWorkers /\ ~ThreadAlive
AcquireAnswered ==
  \A c \in Consumers :
    pc[c] = "lock" ~> (pc[c] \notin {"lock", "ready", "woken"} \/ OutOfWorkers)

\* "No profile cycling or reconnect loop" (hub.py:1260) for leases that allow
\* one session only: once only they are left, the worker shows video or ends.
RingOnlySettles ==
  <>[](~retryOk) => <>[](\A w \in WorkerIds : workers[w].pc \in {"dead", "live"})

\* The media session as the consumers see it.
Device ==
  IF \E w \in WorkerIds : Alive(w) /\ ~workers[w].stop THEN "open"
  ELSE IF \E w \in WorkerIds : Alive(w) THEN "closing" ELSE "free"

Unloaded == stopPc \in {"join", "stopped"}

Lease == INSTANCE MediaLease
           WITH leases <- consumers, device <- Device, closed <- Unloaded, Staged <- FALSE

\* Locks, threads, generations and callbacks amount to a plain lease service:
\* the session opens for a lease, is shared by the next, closes with the last
\* one, and is never handed out while it closes or after the unload.
ImplementsLease == Lease!Spec

-----------------------------------------------------------------------------
(* What makes the invariants above inductive *)

\* The for loop of the worker does not run out of profiles.
ProfilesLeft == \A w \in WorkerIds : workers[w].pc = "next" => workers[w].prof > 0

\* A lease belongs to a task inside acquire, or between acquire and release.
LeaseHolders == \A c \in consumers : pc[c] \in {"ready", "woken", "held", "relock"}

\* hub.lock has one owner, in the middle of a release, of stop or of a trial,
\* and nobody has a lease meanwhile.
LockOwned ==
  /\ lock => consumers = {}
  /\ \A c \in Consumers : pc[c] = "join" =>
       /\ lock /\ stopPc # "join" /\ trialPc # "run"
       /\ \A d \in Consumers : pc[d] = "join" => d = c
  /\ stopPc = "join" => lock /\ trialPc # "run"
  /\ trialPc = "run" => lock

\* control.lock has one owner.
CtlOwned ==
  /\ unlockPc # "idle" => ctl = "main"
  /\ auxLease # {} => ctl = "aux"
  /\ trialPc # "idle" => ctl = "trial"

Exclusion ==
  /\ LeaseHolders /\ LockOwned /\ CtlOwned
  /\ OneMediaWorker /\ SessionNeedsLease /\ ChannelExclusive
  /\ SecondPanelExclusive /\ TrialExclusive

IInv == TypeOK /\ ProfilesLeft /\ Exclusion

\* A live worker was started in this generation, or was told to stop when the
\* generation moved on; one that shows video has found video.
Tagged ==
  \A w \in WorkerIds :
    /\ Alive(w) => /\ workers[w].gen <= generation
                   /\ workers[w].stop <=> workers[w].gen < generation
    /\ workers[w].pc = "live" => workers[w].found

\* No callback comes from the future; while one of this generation is queued
\* the worker was not told to stop; and an "up" among them is either true, or
\* followed by the "down" that takes it back.
Callbacks ==
  \A i \in DOMAIN queue :
    /\ queue[i].gen <= generation
    /\ queue[i].gen = generation /\ queue[i].kind # "wake" /\ ThreadAlive
         => ~workers[thread].stop
    /\ queue[i].gen = generation /\ queue[i].kind = "up" =>
         \/ Showing
         \/ \E j \in DOMAIN queue :
              j > i /\ queue[j].kind = "down" /\ queue[j].gen = generation

Signals == Tagged /\ Callbacks /\ ReadyIsLive

=============================================================================
