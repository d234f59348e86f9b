------------------------------ MODULE QvCloud ------------------------------
(***************************************************************************)
(* The QV cloud calls of a Connect 3 or R002 entry (qv_cloud.py) with the  *)
(* account client (qv_cloud_api.py) and the event filter                   *)
(* (qv_cloud_events.py): the run that authorizes the account, registers an *)
(* installation, subscribes and listens; and the run that only disables    *)
(* what was subscribed.  Both leave by their connections being closed.     *)
(***************************************************************************)
EXTENDS Fcm

VARIABLES
  scope,       \* what the device subscribes: the whole device or its channels
  allowed,     \* configured channels the account has
  goal,        \* the subscription being changed
  call         \* calls whose message is being handled

qvVars == <<scope, allowed, goal, call>>

QvTypeOK ==
  /\ scope \in {"device", "channel"} /\ allowed \in SUBSET {1, 2}
  /\ goal \in Grants /\ call \in SUBSET Calls

QvInit == scope = "channel" /\ allowed = {} /\ goal = 0 /\ call = {}

Targets == IF clean THEN {} ELSE IF scope = "device" THEN {0} ELSE allowed
\* Channels are disabled first, then the device.
First(S) == IF S = {0} THEN 0 ELSE CHOOSE g \in S \ {0} : \A h \in S \ {0} : g <= h
Later == {g \in Targets : g > goal}
\* What the vendor's readback says of a subscription
Observed(g) == g \in remote
Open == ~closed /\ Eligible
Proceeds == clean \/ Open
\* _check_subscription_target
Wished == Open /\ goal \in {0} \cup channels

Go(pc) == run' = pc
\* The rest of the loaded doorbell
Kept == UNCHANGED <<vendor, entryVars, mine, closed, cancelled, clean, earlier, lossy>>
Quiet == UNCHANGED <<tries, subscribed, heard, rang>>

\* async_close and the receiver's: nothing of the connection is used again.
Disconnects == subscribed' = FALSE /\ heard' = {} /\ allowed' = {}

-----------------------------------------------------------------------------
(* Start                                                                   *)

\* start(): a task of its own
QvStart ==
  /\ closed' = FALSE /\ clean' = FALSE
  /\ run' = "load" /\ earlier' = pressed

\* cleanup_pending(): the same for a disabled doorbell
QvClean ==
  /\ closed' = FALSE /\ clean' = TRUE
  /\ run' = "load" /\ earlier' = pressed

\* Mutant of QvLoad: the calls seen are not restored.
QvLoadForgets ==
  /\ run = "load"
  /\ IF clean
       THEN /\ mem' = disk
            /\ Go(IF disk.intents # {} THEN "authorize" ELSE IF disk.made THEN "drop" ELSE "close")
            /\ UNCHANGED save
       ELSE /\ mem' = [disk EXCEPT !.made = TRUE, !.seen = {}]
            /\ SaveBegins("run", mem')
            /\ Go("storing")
  /\ Kept /\ Quiet /\ UNCHANGED <<stimuli, cloudVars, disk, qvVars>>

\* _load: a record is made only to subscribe, and saved before anything else
QvLoad ==
  /\ run = "load"
  /\ IF clean
       THEN /\ mem' = disk
            /\ Go(IF disk.intents # {} THEN "authorize" ELSE IF disk.made THEN "drop" ELSE "close")
            /\ UNCHANGED save
       ELSE /\ mem' = [disk EXCEPT !.made = TRUE]
            /\ SaveBegins("run", mem')
            /\ Go("storing")
  /\ Kept /\ Quiet /\ UNCHANGED <<stimuli, cloudVars, disk, qvVars>>

\* Another attempt, unless closed or reconfigured; three at most
QvLoop ==
  /\ run = "loop"
  /\ IF Open /\ tries < 3
       THEN tries' = tries + 1 /\ Go("authorize")
       ELSE UNCHANGED tries /\ Go("close")
  /\ Kept /\ UNCHANGED <<stimuli, subscribed, heard, rang, cloudVars, diskVars, mem, qvVars>>

\* async_login and async_list_devices: this device is one of the account's.
Authorized(owned) == ConfigurationValid /\ (clean \/ channels \cap owned # {})

\* _authorize: region, login and device list; the vendor says what can be subscribed
QvAuthorize(s, owned) ==
  /\ run = "authorize" /\ Authorized(owned)
  /\ scope' = s /\ allowed' = channels \cap owned
  /\ Go(IF clean THEN "vendor" ELSE "register")
  /\ Kept /\ Quiet /\ UNCHANGED <<stimuli, cloudVars, diskVars, mem, goal, call>>

\* receiver.register: the candidate is saved before it is used (_credentials_changed)
QvRegister ==
  /\ run = "register" /\ Open
  /\ Enroll
  /\ SaveBegins("run", Enrolled)
  /\ Go("credentials")
  /\ Kept /\ Quiet /\ UNCHANGED <<stimuli, disk, mem, qvVars>>

\* async_register: oauth, push information, push token, alarm login
QvVendor(applied, ok) ==
  /\ run = "vendor" /\ Proceeds
  /\ mem.token # 0 /\ Counted(applied /\ ok)
  /\ target' = (IF applied THEN mem.token ELSE target)
  /\ Go(IF ok THEN "turnoff" ELSE "close")
  /\ Kept /\ Quiet /\ UNCHANGED <<issued, remote, pressed, queued, diskVars, mem, qvVars>>

-----------------------------------------------------------------------------
(* Subscriptions: remember, ask, read back                                 *)

\* What an earlier load left and this one does not want is disabled first.
QvTurnOff(applied, ok) ==
  /\ run = "turnoff" /\ Proceeds
  /\ IF mem.intents \subseteq Targets
       THEN /\ applied /\ ok /\ UNCHANGED <<remote, stimuli>>
            /\ goal' = (IF clean THEN 0 ELSE First(Targets))
            /\ Go(IF clean THEN "drop" ELSE "intent")
       ELSE /\ Counted(applied /\ ok)
            /\ goal' = First(mem.intents \ Targets)
            /\ remote' = (IF applied THEN remote \ {goal'} ELSE remote)
            /\ Go(IF ok THEN "offcheck" ELSE "close")
  /\ Kept /\ Quiet /\ UNCHANGED <<issued, target, pressed, queued, diskVars, mem, scope, allowed, call>>

\* _disable_channel, _disable_device: forgotten only when the vendor says it is off
QvOffCheck ==
  /\ run = "offcheck"
  /\ IF Observed(goal)
       THEN Go("close") /\ UNCHANGED save
       ELSE SaveBegins("run", [mem EXCEPT !.intents = @ \ {goal}]) /\ Go("clear")
  /\ Kept /\ Quiet /\ UNCHANGED <<stimuli, cloudVars, disk, mem, qvVars>>

\* The intent is saved before a request whose reply might be lost.
QvIntent ==
  /\ run = "intent" /\ Wished
  /\ SaveBegins("run", [mem EXCEPT !.intents = @ \cup {goal}])
  /\ Go("storeintent")
  /\ Kept /\ Quiet /\ UNCHANGED <<stimuli, cloudVars, disk, mem, qvVars>>

QvSubscribe(applied, ok) ==
  /\ run = "subscribe" /\ Wished
  /\ Counted(applied /\ ok)
  /\ remote' = (IF applied THEN remote \cup {goal} ELSE remote)
  /\ Go(IF ok THEN "oncheck" ELSE "close")
  /\ Kept /\ Quiet /\ UNCHANGED <<issued, target, pressed, queued, diskVars, mem, qvVars>>

\* Confirmed by the readback; then the next channel, or listening
QvOnCheck ==
  /\ run = "oncheck" /\ Wished
  /\ IF ~Observed(goal)
       THEN Go("close") /\ UNCHANGED <<goal, subscribed>>
       ELSE IF Later # {}
              THEN Go("intent") /\ goal' = First(Later) /\ UNCHANGED subscribed
              ELSE Go("listen") /\ subscribed' = TRUE /\ UNCHANGED goal
  /\ Kept /\ UNCHANGED <<stimuli, tries, heard, rang, cloudVars, diskVars, mem, scope, allowed, call>>

-----------------------------------------------------------------------------
(* Messages                                                                *)

\* QVEventFilter.accept and what _message checks before: a fresh call of this
\* device and an authorized channel, not seen, sent after this load started
Accepts(p) ==
  /\ Open /\ subscribed
  /\ ChannelOf(p) \in allowed \cap channels
  /\ p \notin earlier \/ p \in Ahead
  /\ p \notin mem.seen

\* The call is saved as seen before it rings.
QvMessage(p, dates) ==
  /\ Incoming(p) /\ Timely(dates) /\ Accepts(p)
  /\ heard' = heard \cup {p} /\ call' = {p}
  /\ mem' = [mem EXCEPT !.seen = @ \cup {p}]
  /\ SaveBegins("run", mem')
  /\ Go("handle")
  /\ Kept /\ UNCHANGED <<stimuli, tries, subscribed, rang, cloudVars, disk, scope, allowed, goal>>

\* Another event, one whose date is not fresh, or a call that is not accepted
QvIgnored(p, dates) ==
  /\ Incoming(p) /\ (IF Timely(dates) THEN ~Accepts(p) /\ UNCHANGED stimuli ELSE Stimulus)
  /\ heard' = heard \cup {p} /\ Acked(p)
  /\ Kept /\ UNCHANGED <<run, tries, subscribed, rang, issued, target, remote, pressed, diskVars, mem, qvVars>>

\* Mutant of Wanted: what was true before the save is not looked at again.
WantedBefore(p) == subscribed

\* A stop or a reconfiguration may have occurred during the disk operation.
Wanted(p) == Open /\ subscribed /\ ChannelOf(p) \in channels

\* A save that took longer than the callback may rings no more (`late`).
QvHandled(ok, late) ==
  /\ run = "handle" /\ Counted(ok /\ ~late)
  /\ SaveEnds(ok)
  /\ \E p \in call :
       /\ IF ok /\ ~late /\ Wanted(p) THEN Ring(p) ELSE UNCHANGED rang
       /\ Acked(p)
  /\ call' = {} /\ Go("listen")
  /\ Kept /\ UNCHANGED <<tries, subscribed, heard, issued, target, remote, pressed, mem, scope, allowed, goal>>

-----------------------------------------------------------------------------
(* What a save is followed by, and every way to end                        *)

\* _save_confirmed: memory follows the file, once that is verified
QvSaved(ok) ==
  /\ run \in {"storing", "credentials", "clear", "storeintent"}
  /\ Counted(ok)
  /\ SaveEnds(ok)
  /\ mem' = (IF ok THEN save.data ELSE mem)
  /\ Go(IF ~ok THEN IF run = "storing" THEN "off" ELSE "close"
        ELSE CASE run = "storing" -> "loop"
               [] run = "credentials" -> "vendor"
               [] run = "clear" -> "turnoff"
               [] run = "storeintent" -> "subscribe")
  /\ Kept /\ Quiet /\ UNCHANGED <<cloudVars, qvVars>>

\* _connect looks again after everything it awaits: closed, reconfigured, or a
\* channel that is configured no more.
Steps == {"authorize", "register", "vendor", "turnoff", "offcheck", "intent", "subscribe", "oncheck"}
Interrupted == ~Proceeds \/ (run \in {"intent", "subscribe", "oncheck"} /\ ~Wished)

\* A request fails, times out or is refused; the receiver loses its connection.
QvFails(checked) ==
  /\ IF checked
       THEN run \in Steps \cup {"listen"} /\ Interrupted /\ UNCHANGED stimuli
       ELSE (run \in Steps /\ Stimulus) \/ ConnectionLost
  /\ Go("close")
  /\ Kept /\ Quiet /\ UNCHANGED <<cloudVars, diskVars, mem, qvVars>>

\* _close_connections: history, receiver and client, ten seconds each; then wait and
\* try again, or end
QvCloses ==
  /\ run = "close"
  /\ Disconnects
  /\ Go(IF clean \/ ~Open \/ tries = 3 THEN "off" ELSE "loop")
  /\ Kept /\ UNCHANGED <<stimuli, tries, rang, cloudVars, diskVars, mem, scope, goal, call>>

\* The task of stop() cancels the run where it waits; a save is waited for.
QvCancelled ==
  /\ Stopping /\ run # "off" /\ Idle
  /\ run' = "off" /\ Disconnects
  /\ Kept /\ UNCHANGED <<stimuli, tries, rang, cloudVars, diskVars, mem, scope, goal, call>>

\* The end of _cleanup_only: on removal the record goes too, now that nothing is left
QvDrop ==
  /\ run = "drop"
  /\ IF entry = "removing" THEN disk' = Blank /\ mem' = Blank ELSE UNCHANGED <<disk, mem>>
  /\ Go("close")
  /\ Kept /\ Quiet /\ UNCHANGED <<stimuli, cloudVars, save, qvVars>>

QvStep ==
  \/ QvLoad \/ QvLoop \/ QvRegister \/ QvOffCheck \/ QvIntent \/ QvOnCheck
  \/ QvCloses \/ QvCancelled \/ QvDrop
  \/ \E s \in {"device", "channel"}, owned \in {{1}, {1, 2}} : QvAuthorize(s, owned)
  \/ \E a \in BOOLEAN, b \in BOOLEAN :
       QvVendor(a, b) \/ QvTurnOff(a, b) \/ QvSubscribe(a, b) \/ QvHandled(a, b)
  \/ \E p \in Calls : \E d \in SUBSET Dates : QvMessage(p, d) \/ QvIgnored(p, d)
  \/ \E b \in BOOLEAN : QvSaved(b) \/ QvFails(b)

=============================================================================
