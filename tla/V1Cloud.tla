------------------------------ MODULE V1Cloud ------------------------------
(***************************************************************************)
(* The V1 cloud doorbell (v1_cloud.py): a call rings at once and is saved  *)
(* as seen by a task of its own; the run removes what an earlier one left  *)
(* subscribed, subscribes its own FCM token, and on every way out asks     *)
(* once more to be unsubscribed.                                           *)
(***************************************************************************)
EXTENDS Fcm

VARIABLES
  saver        \* the task that saves the calls seen

v1Vars == <<saver>>

V1TypeOK == saver \in {"idle", "queued", "saving"}
V1Init == saver = "idle"

V1Go(pc) == run' = pc
V1Kept == UNCHANGED <<vendor, entryVars, mine, closed, clean, earlier>>
V1Quiet == UNCHANGED <<tries, heard, rang, lossy>>

\* start() or cleanup_pending(): a task of its own
V1Start(only) ==
  /\ closed' = FALSE /\ clean' = only
  /\ run' = "load" /\ earlier' = pressed

\* _load: made unless it only unsubscribes, and saved in any case
V1Load ==
  /\ run = "load"
  /\ IF clean /\ ~disk.made
       THEN V1Go("off") /\ UNCHANGED <<mem, save>>
       ELSE /\ mem' = [disk EXCEPT !.made = TRUE]
            /\ SaveBegins("run", mem')
            /\ V1Go("storing")
  /\ V1Kept /\ V1Quiet /\ UNCHANGED <<stimuli, cancelled, subscribed, cloudVars, disk, saver>>

\* An attempt begins by removing an uncertain previous association.
V1Loop ==
  /\ run = "loop"
  /\ IF ~closed /\ Eligible /\ tries < 3
       THEN tries' = tries + 1 /\ V1Go(IF mem.intents # {} THEN "unsub" ELSE "register")
       ELSE UNCHANGED tries /\ V1Go("last")
  /\ V1Kept /\ UNCHANGED <<stimuli, cancelled, subscribed, heard, rang, lossy, cloudVars, diskVars, mem, saver>>

\* _unsubscribe: the association of the remembered token, when there is one; `applied`
\* and not `ok` is a lost reply
V1Unsubscribe(applied, ok) ==
  /\ run \in {"unsub", "last"}
  /\ subscribed' = FALSE
  /\ IF mem.intents = {}
       THEN applied /\ ok /\ V1Go("off") /\ UNCHANGED <<stimuli, remote>>
       ELSE /\ Counted(applied /\ ok) /\ (ok => applied)
            /\ remote' = (IF applied THEN remote \ mem.intents ELSE remote)
            /\ V1Go(CASE run = "unsub" -> (IF ok THEN "unsave" ELSE "close")
                      [] run = "last" -> (IF ok THEN "lastsave" ELSE "off"))
  /\ V1Kept /\ V1Quiet /\ UNCHANGED <<cancelled, issued, target, pressed, queued, diskVars, mem, saver>>

\* Forgotten only after the vendor accepted
V1Forget ==
  /\ run \in {"unsave", "lastsave"}
  /\ SaveBegins("run", [mem EXCEPT !.intents = {}])
  /\ V1Kept /\ V1Quiet /\ UNCHANGED <<run, stimuli, cancelled, subscribed, cloudVars, disk, mem, saver>>

\* receiver.register: in memory first, saved before it is subscribed
V1Register ==
  /\ run = "register"
  /\ Enroll
  /\ mem' = Enrolled
  /\ V1Go("credentials")
  /\ V1Kept /\ V1Quiet /\ UNCHANGED <<stimuli, cancelled, subscribed, diskVars, saver>>

V1Credentials ==
  /\ run = "credentials"
  /\ SaveBegins("run", mem)
  /\ V1Kept /\ V1Quiet /\ UNCHANGED <<run, stimuli, cancelled, subscribed, cloudVars, disk, mem, saver>>

\* Mutant of V1Intent: the intent is remembered when the reply comes.
V1IntentLater ==
  /\ run = "intent"
  /\ V1Go("subscribe")
  /\ V1Kept /\ V1Quiet /\ UNCHANGED <<stimuli, cancelled, subscribed, cloudVars, diskVars, mem, saver>>

\* _subscribe: the intent is saved first, so that a lost reply can still be cleaned up.
V1Intent ==
  /\ run = "intent"
  /\ SaveBegins("run", [mem EXCEPT !.intents = {mem.token}])
  /\ V1Kept /\ V1Quiet /\ UNCHANGED <<run, stimuli, cancelled, subscribed, cloudVars, disk, mem, saver>>

V1Subscribe(applied, ok) ==
  /\ run = "subscribe"
  /\ Counted(applied /\ ok)
  /\ remote' = (IF applied THEN remote \cup {mem.token} ELSE remote)
  /\ V1Go(IF ok THEN "oncheck" ELSE "close")
  /\ V1Kept /\ V1Quiet /\ UNCHANGED <<cancelled, subscribed, issued, target, pressed, queued, diskVars, mem, saver>>

\* The check must name this token.
V1Check ==
  /\ run = "oncheck"
  /\ IF mem.token \in remote
       THEN subscribed' = TRUE /\ V1Go("listen")
       ELSE UNCHANGED subscribed /\ V1Go("close")
  /\ V1Kept /\ V1Quiet /\ UNCHANGED <<stimuli, cancelled, cloudVars, diskVars, mem, saver>>

-----------------------------------------------------------------------------
(* Messages                                                                *)

\* parse_ring_notification: a well-formed call (event 14) of this device
Kinds == {"call", "other"}
Parsed(kind) == kind = "call"

\* _message: a call that is not seen
V1Accepts(p) == ~closed /\ Eligible /\ subscribed /\ p \notin mem.seen

\* It rings before it is saved: a write never delays it.
V1Message(p, kind, dates) ==
  /\ Incoming(p) /\ Parsed(kind) /\ Timely(dates) /\ V1Accepts(p)
  /\ heard' = heard \cup {p} /\ Acked(p) /\ Ring(p)
  /\ mem' = [mem EXCEPT !.seen = @ \cup {p}]
  /\ saver' = (IF saver = "idle" THEN "queued" ELSE saver)
  /\ V1Kept /\ UNCHANGED <<stimuli, run, cancelled, tries, subscribed, lossy, issued, target, remote, pressed, diskVars>>

\* Another event, one whose date is not fresh, a duplicate
V1Ignored(p, kind, dates) ==
  /\ Incoming(p) /\ (IF Parsed(kind) /\ Timely(dates) THEN ~V1Accepts(p) /\ UNCHANGED stimuli ELSE Stimulus)
  /\ heard' = heard \cup {p} /\ Acked(p)
  /\ V1Kept /\ UNCHANGED <<run, cancelled, tries, subscribed, rang, lossy, issued, target, remote, pressed, diskVars, mem, saver>>

\* _save_seen: again while calls were seen during the write
V1SeenBegins ==
  /\ saver = "queued"
  /\ SaveBegins("seen", mem) /\ saver' = "saving"
  /\ V1Kept /\ V1Quiet /\ UNCHANGED <<run, stimuli, cancelled, subscribed, cloudVars, disk, mem>>

V1SeenEnds(ok) ==
  /\ save.by = "seen" /\ Counted(ok)
  /\ SaveEnds(ok)
  /\ saver' = (IF ok /\ save.data.seen # mem.seen THEN "queued" ELSE "idle")
  /\ lossy' = (lossy \/ ~ok)
  /\ V1Kept /\ UNCHANGED <<run, cancelled, tries, subscribed, heard, rang, cloudVars, mem>>

-----------------------------------------------------------------------------
(* What a save is followed by, and every way to end                        *)

\* _save_confirmed: only the subscription is committed to memory, after the
\* verification.  A cancellation that came meanwhile takes effect now.
V1Saved(ok) ==
  /\ save.by = "run" /\ Counted(ok)
  /\ SaveEnds(ok)
  /\ mem' = (IF ok THEN [mem EXCEPT !.intents = save.data.intents] ELSE mem)
  /\ IF Stopping /\ ~cancelled
       THEN cancelled' = TRUE /\ V1Go(IF run = "lastsave" \/ clean THEN "off" ELSE "last")
       ELSE /\ UNCHANGED cancelled
            /\ V1Go(CASE run = "storing" -> (IF ~clean THEN (IF ok THEN "loop" ELSE "last")
                                             ELSE (IF ok THEN "last" ELSE "off"))
                      [] run = "unsave" -> (IF ok THEN "register" ELSE "close")
                      [] run = "credentials" -> (IF ok THEN "intent" ELSE "close")
                      [] run = "intent" -> (IF ok THEN "subscribe" ELSE "close")
                      [] run = "lastsave" -> "off")
  /\ V1Kept /\ V1Quiet /\ UNCHANGED <<subscribed, cloudVars, saver>>

\* A request fails or times out, or the receiver loses its connection.
V1Fails ==
  /\ (run \in {"register", "oncheck"} /\ Stimulus) \/ ConnectionLost
  /\ V1Go("close")
  /\ V1Kept /\ V1Quiet /\ UNCHANGED <<cancelled, subscribed, cloudVars, diskVars, mem, saver>>

\* The receiver is closed; another attempt, or the last request of the run
V1Closes ==
  /\ run = "close"
  /\ heard' = {}
  /\ V1Go("loop")
  /\ V1Kept /\ UNCHANGED <<stimuli, cancelled, tries, subscribed, rang, lossy, cloudVars, diskVars, mem, saver>>

\* close() cancels the run where it waits: once, also while it already unsubscribes.
V1Cancelled ==
  /\ Stopping /\ ~cancelled /\ run # "off" /\ Idle
  /\ cancelled' = TRUE /\ heard' = {}
  /\ V1Go(IF clean \/ run \in {"last", "lastsave", "load"} THEN "off" ELSE "last")
  /\ V1Kept /\ UNCHANGED <<stimuli, tries, subscribed, rang, lossy, cloudVars, diskVars, mem, saver>>

\* _close: the run and the saver have ended; what was seen is saved once more.
V1Closed ==
  /\ Stopping /\ run = "off" /\ saver = "idle"
  /\ entry' = "last"
  /\ UNCHANGED <<stimuli, vendor, after, option, config, channels, cloudVars, diskVars, mem, runVars, obsVars, saver>>

V1LastBegins ==
  /\ entry = "last" /\ mem.made /\ SaveBegins("last", mem)
  /\ V1Kept /\ V1Quiet /\ UNCHANGED <<run, stimuli, cancelled, subscribed, cloudVars, disk, mem, saver>>

V1Step ==
  \/ V1Load \/ V1Loop \/ V1Forget \/ V1Register \/ V1Credentials \/ V1Intent \/ V1Check
  \/ V1SeenBegins \/ V1Fails \/ V1Closes \/ V1Cancelled \/ V1Closed \/ V1LastBegins
  \/ \E a \in BOOLEAN, b \in BOOLEAN : V1Unsubscribe(a, b) \/ V1Subscribe(a, b)
  \/ \E p \in Calls, k \in Kinds : \E d \in SUBSET Dates : V1Message(p, k, d) \/ V1Ignored(p, k, d)
  \/ \E b \in BOOLEAN : V1SeenEnds(b) \/ V1Saved(b)

=============================================================================
