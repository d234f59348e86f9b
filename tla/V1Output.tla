------------------------------ MODULE V1Output ------------------------------
(***************************************************************************)
(* Output commands (door strike, gate) sent on the live media session      *)
(* (control.py, class DeviceController; v1_control.py, V1MediaOutput).     *)
(*                                                                         *)
(* A command of the main panel is an executor thread that waits for a      *)
(* coroutine of the event loop; a command of the second panel is a loop    *)
(* task of its own.  Either way the coroutine execute borrows a media      *)
(* lease, leaves ONE request for the media worker thread, and waits for    *)
(* the reply, which the worker reads on the same session.  The media       *)
(* session itself is the abstraction of MediaHub: a lease service that     *)
(* opens a session while somebody holds a lease.                           *)
(*                                                                         *)
(* The loop runs one task at a time, but a task that takes the request     *)
(* lock (V1MediaOutput.lock) twice in a row can be overtaken in between by *)
(* the worker thread: `busy` names the task the loop is in the middle of.  *)
(***************************************************************************)
EXTENDS Naturals

CONSTANTS
  Commands,      \* the commands given, each once
  Panels,        \* the panels they may be for (a subset of 1..2)
  None,          \* no command
  Cancels,       \* may Home Assistant cancel a second-panel action
  Impatient,     \* may the 80 s of future.result run out before execute ends
  MaxSessions    \* bound: media sessions opened in a behaviour

ASSUME CommandsAssumption ==
  /\ Panels \subseteq 1..2
  /\ None \notin Commands
ASSUME ConfigAssumption == Cancels \in BOOLEAN /\ Impatient \in BOOLEAN
ASSUME BoundAssumption == MaxSessions \in Nat \ {0}

VARIABLES
  panel,         \* the panel of each command: unlock (1) or unlock_target (2)
  \* DeviceController
  ctl,           \* the command that holds control.lock
  shut,          \* close(): "open", "flagged" (closed set), "closed"
  attempts,      \* request_send_attempt_count
  lastResult,    \* last_result
  target,        \* _active_target: the second-panel action in progress
  targetSession, \* _target_session
  \* the callers
  caller,        \* where unlock / unlock_target is
  before,        \* attempts when the command began
  verdict,       \* what the user is told
  gaveUp,        \* some future.result(timeout=80) ran out
  \* execute, on the loop
  busy,          \* the task whose synchronous segment the loop is in
  task,          \* where execute is
  ending,        \* how execute will end
  cancelled,     \* a cancellation of the task was asked for
  \* V1MediaOutput
  pending,       \* the request the worker may serve
  uncertain,     \* uncertain_session
  req,           \* PendingOutput.state
  reqSession,    \* PendingOutput.session
  late,          \* PendingOutput.deadline has passed
  answer,        \* what was posted to PendingOutput.future
  \* the hub and its worker
  stopped,       \* hub.stopped
  activeCh,      \* hub._active_media_channel
  session,       \* hub.session, 0 for None
  made,          \* sessions opened so far
  phase,         \* where the worker is in its session
  claimed,       \* the command the worker is sending
  idleOk,        \* session.v1_allow_idle_timeouts
  \* the device, and what really happened
  unanswered,    \* requests that reached the device, not answered yet
  sentOn,        \* the session each command was claimed on, 0 for none
  answeredBy     \* the command whose reply each command was given

callerVars  == <<panel, ctl, caller, before, verdict, gaveUp>>
targetVars  == <<target, targetSession>>
counterVars == <<attempts, lastResult>>
taskVars    == <<busy, task, ending, cancelled>>
requestVars == <<pending, uncertain, req, reqSession, late, answer>>
hubVars     == <<stopped, activeCh>>
workerVars  == <<session, made, phase, claimed, idleOk>>
deviceVars  == <<unanswered, sentOn, answeredBy>>
vars == <<callerVars, targetVars, counterVars, taskVars, requestVars,
          hubVars, workerVars, deviceVars, shut>>

-----------------------------------------------------------------------------
Sessions == 0..MaxSessions
Main(c) == panel[c] = 1
Second(c) == panel[c] = 2
Closed == shut # "open"
LoopFree == busy = None /\ shut # "flagged"

Waiting(c) == caller[c] = "waiting"

TypeOK ==
  /\ panel \in [Commands -> Panels]
  /\ ctl \in Commands \cup {None}
  /\ shut \in {"open", "flagged", "closed"}
  /\ attempts \in Nat
  /\ lastResult \in {"none", "accepted", "refused"}
  /\ target \in Commands \cup {None} /\ targetSession \in Sessions
  /\ caller \in [Commands -> {"idle", "check", "waiting", "done"}]
  /\ before \in [Commands -> Nat]
  /\ verdict \in [Commands -> {"none", "ok", "certain", "uncertain"}]
  /\ gaveUp \in BOOLEAN
  /\ busy \in Commands \cup {None}
  /\ task \in [Commands -> {"none", "acquire", "enqueue", "wait", "except",
                            "idleoff", "finally", "release", "done"}]
  /\ ending \in [Commands -> {"ok", "error"}]
  /\ cancelled \in [Commands -> BOOLEAN]
  /\ pending \in Commands \cup {None} /\ uncertain \in Sessions
  /\ req \in [Commands -> {"none", "queued", "sent", "answered", "expired",
                           "cancelled", "send_failed", "session_closed"}]
  /\ reqSession \in [Commands -> Sessions]
  /\ late \in [Commands -> BOOLEAN]
  /\ answer \in [Commands -> {"none", "body", "error"}]
  /\ stopped \in BOOLEAN
  /\ activeCh \in 1..2
  /\ session \in Sessions /\ made \in Sessions
  /\ phase \in {"down", "login", "read", "claim", "send", "closing"}
  /\ claimed \in Commands \cup {None} /\ idleOk \in BOOLEAN
  /\ unanswered \subseteq Commands
  /\ sentOn \in [Commands -> Sessions]
  /\ answeredBy \in [Commands -> Commands \cup {None}]

Init ==
  /\ panel \in [Commands -> Panels]
  /\ ctl = None /\ shut = "open" /\ attempts = 0 /\ lastResult = "none"
  /\ target = None /\ targetSession = 0
  /\ caller = [c \in Commands |-> "idle"]
  /\ before = [c \in Commands |-> 0]
  /\ verdict = [c \in Commands |-> "none"]
  /\ gaveUp = FALSE
  /\ busy = None
  /\ task = [c \in Commands |-> "none"]
  /\ ending = [c \in Commands |-> "error"]
  /\ cancelled = [c \in Commands |-> FALSE]
  /\ pending = None /\ uncertain = 0
  /\ req = [c \in Commands |-> "none"]
  /\ reqSession = [c \in Commands |-> 0]
  /\ late = [c \in Commands |-> FALSE]
  /\ answer = [c \in Commands |-> "none"]
  /\ stopped = FALSE /\ activeCh = 1
  /\ session = 0 /\ made = 0 /\ phase = "down" /\ claimed = None /\ idleOk = FALSE
  /\ unanswered = {}
  /\ sentOn = [c \in Commands |-> 0]
  /\ answeredBy = [c \in Commands |-> None]

-----------------------------------------------------------------------------
(* The callers.  A failure is reported as certain (nothing was sent) or     *)
(* uncertain, from two values shared by all commands.                       *)

Failure(c) == IF attempts > before[c] /\ lastResult = "none" THEN "uncertain" ELSE "certain"

Settle(c, v) ==
  /\ caller' = [caller EXCEPT ![c] = "done"]
  /\ verdict' = [verdict EXCEPT ![c] = v]

\* The user presses again while a command holds control.lock.
CommandBusy(c) ==
  /\ caller[c] = "idle" /\ ctl # None
  /\ Second(c) => LoopFree
  /\ Settle(c, "certain")
  /\ UNCHANGED <<panel, ctl, before, gaveUp, targetVars, counterVars, taskVars, requestVars,
                 hubVars, workerVars, deviceVars, shut>>

\* (mutant: the result of the previous command is kept.)
BeginStale(c) ==
  /\ caller[c] = "idle" /\ ctl = None
  /\ before' = [before EXCEPT ![c] = attempts]
  /\ UNCHANGED lastResult

Begin(c) ==
  /\ caller[c] = "idle" /\ ctl = None
  /\ before' = [before EXCEPT ![c] = attempts]
  /\ lastResult' = "none"

UnlockBegin(c) ==
  /\ Main(c) /\ Begin(c)
  /\ ctl' = c
  /\ caller' = [caller EXCEPT ![c] = "check"]
  /\ UNCHANGED <<panel, verdict, gaveUp, targetVars, attempts, taskVars, requestVars,
                 hubVars, workerVars, deviceVars, shut>>

\* The unload, the other panel, or less than 3 s since the last attempt.
UnlockRefused(c) ==
  /\ caller[c] = "check"
  /\ Closed \/ activeCh # 1 \/ attempts > 0
  /\ Settle(c, Failure(c)) /\ ctl' = None
  /\ UNCHANGED <<panel, before, gaveUp, targetVars, counterVars, taskVars, requestVars,
                 hubVars, workerVars, deviceVars, shut>>

UnlockSubmit(c) ==
  /\ caller[c] = "check" /\ ~Closed /\ activeCh = 1
  /\ caller' = [caller EXCEPT ![c] = "waiting"]
  /\ task' = [task EXCEPT ![c] = "acquire"]
  /\ UNCHANGED <<panel, ctl, before, verdict, gaveUp, targetVars, counterVars, busy, ending, cancelled,
                 requestVars, hubVars, workerVars, deviceVars, shut>>

\* The result of the coroutine; or close() cancelled the future under the thread.
UnlockResult(c) ==
  /\ Main(c) /\ Waiting(c)
  /\ task[c] = "done" \/ cancelled[c]
  /\ Settle(c, IF task[c] = "done" /\ ending[c] = "ok" THEN "ok" ELSE Failure(c))
  /\ ctl' = None
  /\ UNCHANGED <<panel, before, gaveUp, targetVars, counterVars, taskVars, requestVars,
                 hubVars, workerVars, deviceVars, shut>>

UnlockImpatient(c) ==
  /\ Impatient /\ Main(c) /\ Waiting(c) /\ task[c] # "done"
  /\ Settle(c, Failure(c)) /\ ctl' = None
  /\ gaveUp' = TRUE
  /\ cancelled' = [cancelled EXCEPT ![c] = TRUE]
  /\ UNCHANGED <<panel, before, targetVars, counterVars, busy, task, ending, requestVars,
                 hubVars, workerVars, deviceVars, shut>>

TargetRefused(c) ==
  /\ Second(c) /\ LoopFree /\ Begin(c)
  /\ Closed \/ stopped \/ attempts > 0
  /\ Settle(c, "certain")
  /\ UNCHANGED <<panel, ctl, gaveUp, targetVars, attempts, taskVars, requestVars,
                 hubVars, workerVars, deviceVars, shut>>

TargetBegin(c) ==
  /\ Second(c) /\ LoopFree /\ Begin(c)
  /\ ~Closed /\ ~stopped
  /\ ctl' = c /\ target' = c
  /\ caller' = [caller EXCEPT ![c] = "waiting"]
  /\ task' = [task EXCEPT ![c] = "acquire"]
  /\ UNCHANGED <<panel, verdict, gaveUp, targetSession, attempts, busy, ending, cancelled, requestVars,
                 hubVars, workerVars, deviceVars, shut>>

TargetEnd(c) ==
  /\ Second(c) /\ Waiting(c) /\ LoopFree /\ task[c] = "done"
  /\ Settle(c, IF ending[c] = "ok" THEN "ok" ELSE Failure(c))
  /\ ctl' = None /\ target' = None /\ targetSession' = 0
  /\ UNCHANGED <<panel, before, gaveUp, counterVars, taskVars, requestVars,
                 hubVars, workerVars, deviceVars, shut>>

\* A script or a request of Home Assistant that runs the action is stopped.
TargetCancel(c) ==
  /\ Cancels /\ Second(c) /\ Waiting(c) /\ LoopFree /\ task[c] # "done"
  /\ cancelled' = [cancelled EXCEPT ![c] = TRUE]
  /\ UNCHANGED <<callerVars, targetVars, counterVars, busy, task, ending, requestVars,
                 hubVars, workerVars, deviceVars, shut>>

-----------------------------------------------------------------------------
(* execute.  A step that leaves busy at c keeps the loop.                   *)

Goto(c, where) == task' = [task EXCEPT ![c] = where]
Ends(c, how) == ending' = [ending EXCEPT ![c] = how]

\* Refused, 38 s without video, a failed session, the unload, a cancellation,
\* or a session of another device or profile.
AcquireFails(c) ==
  /\ LoopFree /\ task[c] = "acquire"
  /\ Goto(c, "release")
  /\ UNCHANGED <<callerVars, targetVars, counterVars, busy, ending, cancelled, requestVars,
                 hubVars, workerVars, deviceVars, shut>>

\* hub.session is read after the lease was granted: it may be a session that
\* the worker is about to close.
AcquireReturns(c) ==
  /\ LoopFree /\ task[c] = "acquire" /\ ~cancelled[c]
  /\ ~Closed /\ session # 0 /\ phase # "login" /\ activeCh = panel[c]
  /\ reqSession' = [reqSession EXCEPT ![c] = session]
  /\ Second(c) => target = c /\ ~stopped
  /\ targetSession' = IF Second(c) THEN session ELSE targetSession
  /\ busy' = c /\ Goto(c, "enqueue")
  /\ UNCHANGED <<callerVars, target, counterVars, ending, cancelled, pending, uncertain,
                 req, late, answer, hubVars, workerVars, deviceVars, shut>>

Enqueue(c) ==
  /\ busy = c /\ task[c] = "enqueue"
  /\ IF Closed \/ uncertain = reqSession[c] \/ pending # None
     THEN /\ Goto(c, "idleoff")
          /\ UNCHANGED <<busy, pending, req>>
     ELSE /\ pending' = c /\ req' = [req EXCEPT ![c] = "queued"]
          /\ busy' = None /\ Goto(c, "wait")
  /\ UNCHANGED <<callerVars, targetVars, counterVars, ending, cancelled, uncertain,
                 reqSession, late, answer, hubVars, workerVars, deviceVars, shut>>

\* Ten seconds pass; the worker compares the same deadline.
Late(c) ==
  /\ task[c] = "wait" /\ ~late[c]
  /\ late' = [late EXCEPT ![c] = TRUE]
  /\ UNCHANGED <<callerVars, targetVars, counterVars, taskVars, pending, uncertain, req,
                 reqSession, answer, hubVars, workerVars, deviceVars, shut>>

Wakes(c) == LoopFree /\ task[c] = "wait" /\ busy' = c

WaitEnds(c) ==
  /\ Wakes(c)
  /\ late[c] \/ cancelled[c] \/ answer[c] = "error"
  /\ Goto(c, "except")
  /\ UNCHANGED <<callerVars, targetVars, counterVars, ending, cancelled, requestVars,
                 hubVars, workerVars, deviceVars, shut>>

Accepted(c) ==
  /\ Wakes(c) /\ answer[c] = "body"
  /\ lastResult' = "accepted" /\ Ends(c, "ok") /\ Goto(c, "idleoff")
  /\ UNCHANGED <<callerVars, targetVars, attempts, cancelled, requestVars,
                 hubVars, workerVars, deviceVars, shut>>

RefusedByDevice(c) ==
  /\ Wakes(c) /\ answer[c] = "body"
  /\ lastResult' = "refused" /\ Goto(c, "except")
  /\ UNCHANGED <<callerVars, targetVars, attempts, ending, cancelled, requestVars,
                 hubVars, workerVars, deviceVars, shut>>

DecodeFails(c) ==
  /\ Wakes(c) /\ answer[c] = "body"
  /\ uncertain' = reqSession[c] /\ Goto(c, "except")
  /\ UNCHANGED <<callerVars, targetVars, counterVars, ending, cancelled, pending, req,
                 reqSession, late, answer, hubVars, workerVars, deviceVars, shut>>

\* (mutant: a confirmation that did not come leaves the session usable.)
ExceptForgets(c) ==
  /\ busy = c /\ task[c] = "except"
  /\ Goto(c, "idleoff")
  /\ UNCHANGED <<callerVars, targetVars, counterVars, busy, ending, cancelled, requestVars,
                 hubVars, workerVars, deviceVars, shut>>

\* except BaseException, under the request lock.
Except(c) ==
  /\ busy = c /\ task[c] = "except"
  /\ uncertain' = IF req[c] = "sent" THEN reqSession[c] ELSE uncertain
  /\ Goto(c, "idleoff")
  /\ UNCHANGED <<callerVars, targetVars, counterVars, busy, ending, cancelled, pending, req,
                 reqSession, late, answer, hubVars, workerVars, deviceVars, shut>>

\* (mutant: the flag is not reset.)
IdleOffForgotten(c) ==
  /\ busy = c /\ task[c] = "idleoff"
  /\ Goto(c, "finally")
  /\ UNCHANGED <<callerVars, targetVars, counterVars, busy, ending, cancelled, requestVars,
                 hubVars, workerVars, deviceVars, shut>>

\* finally: first the time-out flag of the session, without the lock ...
IdleOff(c) ==
  /\ busy = c /\ task[c] = "idleoff"
  /\ idleOk' = (idleOk /\ reqSession[c] # session)
  /\ Goto(c, "finally")
  /\ UNCHANGED <<callerVars, targetVars, counterVars, busy, ending, cancelled, requestVars,
                 hubVars, session, made, phase, claimed, deviceVars, shut>>

\* ... then, under the lock again, the request; nobody reads it any more.
Finally(c) ==
  /\ busy = c /\ task[c] = "finally"
  /\ pending' = IF pending = c THEN None ELSE pending
  /\ req' = [req EXCEPT ![c] = "none"] /\ reqSession' = [reqSession EXCEPT ![c] = 0]
  /\ late' = [late EXCEPT ![c] = FALSE] /\ answer' = [answer EXCEPT ![c] = "none"]
  /\ busy' = None /\ Goto(c, "release")
  /\ UNCHANGED <<callerVars, targetVars, counterVars, ending, cancelled, uncertain,
                 hubVars, workerVars, deviceVars, shut>>

\* A cancellation that came meanwhile, or a worker that does not stop in 15 s,
\* ends execute with an exception.
Release(c) ==
  /\ LoopFree /\ task[c] = "release" /\ Goto(c, "done")
  /\ UNCHANGED ending \/ Ends(c, "error")
  /\ UNCHANGED <<callerVars, targetVars, counterVars, busy, cancelled, requestVars,
                 hubVars, workerVars, deviceVars, shut>>

-----------------------------------------------------------------------------
(* The media worker, on its session.                                        *)

\* _resolve: the first result counts, and only while execute waits.
Post(c, what) ==
  answer' = [answer EXCEPT ![c] = IF @ = "none" /\ task[c] = "wait" THEN what ELSE @]

\* Viewers come and go: a session of either panel may open at any time.
Connect(ch) ==
  /\ phase = "down" /\ made < MaxSessions
  /\ made' = made + 1 /\ session' = made' /\ phase' = "login" /\ activeCh' = ch
  /\ idleOk' = FALSE /\ unanswered' = {}
  /\ UNCHANGED <<callerVars, targetVars, counterVars, taskVars, requestVars, stopped,
                 claimed, sentOn, answeredBy, shut>>

Login ==
  /\ phase = "login" /\ phase' = "read"
  /\ UNCHANGED <<callerVars, targetVars, counterVars, taskVars, requestVars, hubVars,
                 session, made, claimed, idleOk, deviceVars, shut>>

\* One batch read and observed: it brings the reply to one command, or none.
Observe(r) ==
  LET c == pending
      mine == c # None /\ reqSession[c] = session /\ req[c] = "sent"
  IN
  /\ phase = "read" /\ r \in unanswered \cup {None}
  /\ phase' = "claim" /\ unanswered' = unanswered \ {r}
  /\ IF mine /\ late[c]
     THEN /\ req' = [req EXCEPT ![c] = "expired"] /\ uncertain' = session /\ Post(c, "error")
          /\ UNCHANGED answeredBy
     ELSE IF mine /\ r # None
     THEN /\ req' = [req EXCEPT ![c] = "answered"] /\ Post(c, "body")
          /\ answeredBy' = [answeredBy EXCEPT ![c] = r]
          /\ UNCHANGED uncertain
     ELSE UNCHANGED <<req, uncertain, answer, answeredBy>>
  /\ UNCHANGED <<callerVars, targetVars, counterVars, taskVars, pending, reqSession, late,
                 hubVars, session, made, claimed, idleOk, sentOn, shut>>

\* (mutant: the worker of a later session serves the request.)
ServableAnySession == pending # None /\ req[pending] = "queued"
Servable == pending # None /\ reqSession[pending] = session /\ req[pending] = "queued"

\* authorize_target_session, as far as it is not the entry's options.
Authorized(c) ==
  Second(c) => /\ target = c /\ targetSession = session /\ ctl # None
                  /\ ~stopped /\ activeCh = 2

NothingToSend ==
  /\ phase = "claim" /\ ~Servable
  /\ phase' = "read"
  /\ UNCHANGED <<callerVars, targetVars, counterVars, taskVars, requestVars, hubVars,
                 session, made, claimed, idleOk, deviceVars, shut>>

\* Too late, unloaded, or the entry's options or the device changed.
ClaimRefused ==
  /\ phase = "claim" /\ Servable
  /\ req' = [req EXCEPT ![pending] = "cancelled"] /\ Post(pending, "error")
  /\ phase' = "read"
  /\ UNCHANGED <<callerVars, targetVars, counterVars, taskVars, pending, uncertain, reqSession,
                 late, hubVars, session, made, claimed, idleOk, deviceVars, shut>>

Claim ==
  /\ phase = "claim" /\ Servable
  /\ ~Closed /\ ~late[pending] /\ Authorized(pending)
  /\ req' = [req EXCEPT ![pending] = "sent"]
  /\ claimed' = pending /\ sentOn' = [sentOn EXCEPT ![pending] = session]
  /\ attempts' = attempts + 1 /\ idleOk' = TRUE
  /\ phase' = "send"
  /\ UNCHANGED <<callerVars, targetVars, lastResult, taskVars, pending, uncertain, reqSession,
                 late, answer, hubVars, session, made, unanswered, answeredBy, shut>>

Send ==
  /\ phase = "send" /\ phase' = "read"
  /\ unanswered' = unanswered \cup {claimed} /\ claimed' = None
  /\ UNCHANGED <<callerVars, targetVars, counterVars, taskVars, requestVars, hubVars,
                 session, made, idleOk, sentOn, answeredBy, shut>>

\* send_packet raised; part or all of the packet may have left.
SendFails ==
  /\ phase = "send" /\ phase' = "read"
  /\ unanswered' \in {unanswered, unanswered \cup {claimed}} /\ claimed' = None
  /\ uncertain' = session
  /\ IF pending = claimed
     THEN req' = [req EXCEPT ![claimed] = "send_failed"] /\ Post(claimed, "error")
     ELSE UNCHANGED <<req, answer>>
  /\ UNCHANGED <<callerVars, targetVars, counterVars, taskVars, pending, reqSession, late,
                 hubVars, session, made, idleOk, sentOn, answeredBy, shut>>

\* The session fails or the worker is told to stop: media_closed comes first,
\* while hub.session still names the session.
MediaClosed ==
  /\ phase \in {"login", "read", "claim"} /\ phase' = "closing"
  /\ idleOk' = FALSE
  /\ uncertain' = IF uncertain = session THEN 0 ELSE uncertain
  /\ IF pending # None /\ reqSession[pending] = session /\ req[pending] \in {"queued", "sent"}
     THEN req' = [req EXCEPT ![pending] = "session_closed"] /\ Post(pending, "error")
     ELSE UNCHANGED <<req, answer>>
  /\ UNCHANGED <<callerVars, targetVars, counterVars, taskVars, pending, reqSession, late,
                 hubVars, session, made, claimed, deviceVars, shut>>

SessionClosed ==
  /\ phase = "closing" /\ phase' = "down" /\ session' = 0
  /\ UNCHANGED <<callerVars, targetVars, counterVars, taskVars, requestVars, hubVars,
                 made, claimed, idleOk, deviceVars, shut>>

-----------------------------------------------------------------------------
(* The unload.                                                              *)

StopBegin ==
  /\ LoopFree /\ ~stopped /\ stopped' = TRUE
  /\ UNCHANGED <<callerVars, targetVars, counterVars, taskVars, requestVars, activeCh,
                 workerVars, deviceVars, shut>>

CloseFlag ==
  /\ LoopFree /\ stopped /\ shut = "open" /\ shut' = "flagged"
  /\ UNCHANGED <<callerVars, targetVars, counterVars, taskVars, requestVars, hubVars,
                 workerVars, deviceVars>>

\* V1MediaOutput.close, then the tasks and futures are cancelled.
Close ==
  /\ shut = "flagged" /\ shut' = "closed"
  /\ IF pending = None THEN UNCHANGED <<req, uncertain, answer, idleOk>>
     ELSE /\ idleOk' = (idleOk /\ reqSession[pending] # session)
          /\ uncertain' = IF req[pending] = "sent" THEN reqSession[pending] ELSE uncertain
          /\ req' = [req EXCEPT ![pending] = "cancelled"] /\ Post(pending, "error")
  /\ cancelled' = [c \in Commands |-> cancelled[c] \/ (Waiting(c) /\ task[c] # "done")]
  /\ UNCHANGED <<callerVars, targetVars, counterVars, busy, task, ending, pending, reqSession,
                 late, hubVars, session, made, phase, claimed, deviceVars>>

-----------------------------------------------------------------------------
CallerStep(c) ==
  \/ CommandBusy(c) \/ UnlockBegin(c) \/ UnlockRefused(c) \/ UnlockSubmit(c)
  \/ UnlockResult(c) \/ UnlockImpatient(c)
  \/ TargetRefused(c) \/ TargetBegin(c) \/ TargetEnd(c) \/ TargetCancel(c)

ExecuteStep(c) ==
  \/ AcquireFails(c) \/ AcquireReturns(c) \/ Enqueue(c) \/ Late(c)
  \/ WaitEnds(c) \/ Accepted(c) \/ RefusedByDevice(c) \/ DecodeFails(c)
  \/ Except(c) \/ IdleOff(c) \/ Finally(c) \/ Release(c)

WorkerStep ==
  \/ (\E ch \in 1..2 : Connect(ch)) \/ Login \/ (\E r \in Commands \cup {None} : Observe(r))
  \/ NothingToSend \/ ClaimRefused \/ Claim \/ Send \/ SendFails
  \/ MediaClosed \/ SessionClosed

StopStep ==
  StopBegin \/ CloseFlag \/ Close

\* All is done, and the integration is unloaded: nothing may happen any more.
Unloaded ==
  /\ shut = "closed" /\ \A c \in Commands : caller[c] = "done"
  /\ UNCHANGED vars

Next ==
  \/ Unloaded
  \/ \E c \in Commands : CallerStep(c) \/ ExecuteStep(c)
  \/ WorkerStep \/ StopStep

\* The loop and the executor threads run; reads, connections, joins and waits
\* have time-outs.  Nobody must press, watch, cancel or unload.
Fairness ==
  /\ \A c \in Commands :
       /\ SF_vars(ExecuteStep(c))
       /\ WF_vars(UnlockRefused(c) \/ UnlockSubmit(c))
       /\ WF_vars(UnlockResult(c)) /\ SF_vars(TargetEnd(c))
  /\ WF_vars(WorkerStep)
  /\ WF_vars(Close)

Spec == Init /\ [][Next]_vars /\ Fairness

-----------------------------------------------------------------------------
(* Properties.                                                              *)

\* One attempt for each command, on the session it was accepted on: "never a
\* retry, and no output command survives its original session"
\* (v1_control.py:5).
OneAttempt ==
  [][attempts' # attempts =>
       \E c \in Commands : /\ sentOn[c] = 0 /\ sentOn'[c] = reqSession[c]
                           /\ session = reqSession[c] /\ ~Closed]_vars

\* A command is given the reply to another one only on a session on which the
\* execution of yet another command was cancelled (see UncertainBlocks): from
\* then on the replies may be one off, for that command and those after it.
ReplyBelongs ==
  \A c \in Commands : answeredBy[c] \notin {None, c} =>
    \E d \in Commands \ {c} : cancelled[d] /\ sentOn[d] = sentOn[c]

\* A failure reported as certain stays so: nothing was sent, or the device
\* answered this very command.  After an 80 s time-out of a caller the
\* coroutine it abandoned may still send.
CertainFailure ==
  \A c \in Commands :
    verdict[c] = "certain" => sentOn[c] = 0 \/ answeredBy[c] # None \/ gaveUp

Promise == INSTANCE OutputCommand
             WITH sent <- {c \in Commands : sentOn[c] # 0},
                  answered <- {c \in Commands : answeredBy[c] # None},
                  told <- verdict, abandoned <- gaveUp

\* Callers, tasks, one pending request and a worker thread amount to commands
\* that leave once or not at all, never after their caller was answered, and of
\* which the caller is told what is true.
ImplementsCommand == Promise!Spec

\* Clean time-outs of the media read count as idle time only while a command
\* waits for its reply ("only for that explicit command window", client.py:627).
IdleScoped ==
  idleOk => \E c \in Commands :
              /\ sentOn[c] = session
              /\ task[c] \in {"wait", "except", "idleoff"} \/ cancelled[c]

\* After close() no request is left that a worker may claim, whichever way
\* close() met an execute that was about to queue one.
ClosedQuiet ==
  shut = "closed" => ~(pending # None /\ req[pending] = "queued")

\* "Une confirmation incertaine interdit une autre action sur cette session
\* jusqu'a sa fermeture" (docs/intercom-beta1.md:67): no attempt while another
\* command of the session was attempted and its reply not received.
UncertainBlocks ==
  [][attempts' # attempts =>
       \A d \in Commands \ {pending} : sentOn[d] = session => answeredBy[d] = d]_vars
=============================================================================
