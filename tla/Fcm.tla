-------------------------------- MODULE Fcm --------------------------------
(***************************************************************************)
(* What the two cloud doorbells of WelcomeEye share: a private record that *)
(* is saved and verified (_save_confirmed and _verify_saved_state), the    *)
(* FCM receiver (v1_cloud_fcm.py, qv_cloud_fcm.py, qv_cloud_android.py)    *)
(* and the vendor and Google as the code uses them.  V1Cloud and QvCloud   *)
(* add their run; CloudEntry adds the life of the entry.                   *)
(*                                                                         *)
(* A call of the doorbell waits at Google for one FCM token until that     *)
(* token's receiver acknowledges it; a new connection gets it again.  A    *)
(* request to the vendor takes effect when it is sent or never, and its    *)
(* reply may be lost either way.                                           *)
(***************************************************************************)
EXTENDS Naturals, FiniteSets

CONSTANTS
  Calls,       \* presses of the doorbell, each once
  Second,      \* those of channel 2
  Ahead,       \* those whose Google timestamp is ahead of the clock of HA
  MaxStimuli   \* bound: presses, faults, reconfigurations, crashes, removals

ASSUME FcmAssumption == Second \subseteq Calls /\ Ahead \subseteq Calls /\ MaxStimuli \in Nat

VARIABLES
  stimuli,     \* how many of them there were
  vendor,      \* which of the two doorbells this is
  \* the entry
  entry,       \* how far its life is
  after,       \* what follows when its cloud has stopped
  option,      \* the cloud doorbell is enabled
  config,      \* version of its cloud account
  channels,    \* its configured channels
  \* Google and the vendor
  issued,      \* FCM tokens given out so far
  target,      \* token registered with the vendor for this client (QV)
  remote,      \* what is subscribed there: tokens (V1), channels or 0 for the device (QV)
  pressed,     \* calls so far
  queued,      \* token each call waits for, 0 for none
  \* the private record
  disk,        \* as saved
  save,        \* the write in progress
  \* one load of the doorbell
  mem,         \* the record in memory, with the calls seen
  closed,      \* close or stop was called
  mine,        \* version of the account it was built with
  run,         \* where its task is
  cancelled,   \* the task was cancelled
  clean,       \* the task only removes a subscription
  tries,       \* connection attempts
  subscribed,  \* the vendor confirmed
  heard,       \* calls this connection delivered
  earlier,     \* calls before it was started
  \* what an observer remembers
  rang,        \* how often each call rang
  lossy        \* a crash or a failed save lost calls seen

entryVars == <<entry, after, option, config, channels>>
cloudVars == <<issued, target, remote, pressed, queued>>
diskVars == <<disk, save>>
runVars == <<closed, mine, run, cancelled, clean, tries, subscribed, heard, earlier>>
obsVars == <<rang, lossy>>

-----------------------------------------------------------------------------
Grants == 0..2
ChannelOf(p) == IF p \in Second THEN 2 ELSE 1
Max(S) == CHOOSE m \in S : \A n \in S : n <= m

Data == [made : BOOLEAN, token : Nat, web : BOOLEAN, intents : SUBSET Nat, seen : SUBSET Calls]
Blank == [made |-> FALSE, token |-> 0, web |-> FALSE, intents |-> {}, seen |-> {}]
Write == [by : {"none", "run", "seen", "last"}, data : Data]
NoSave == [by |-> "none", data |-> Blank]

FcmTypeOK ==
  /\ stimuli \in 0..MaxStimuli /\ vendor \in {"v1", "qv"}
  /\ entry \in {"setup", "loaded", "reload", "stopping", "last", "removing", "removed"}
  /\ after \in {"setup", "remove"}
  /\ option \in BOOLEAN /\ config \in Nat /\ channels \in {{1}, {1, 2}}
  /\ issued \in Nat /\ target \in Nat /\ remote \in SUBSET Nat
  /\ pressed \in SUBSET Calls /\ queued \in [Calls -> Nat]
  /\ disk \in Data /\ save \in Write
  /\ mem \in Data
  /\ closed \in BOOLEAN /\ mine \in Nat /\ cancelled \in BOOLEAN /\ clean \in BOOLEAN
  /\ run \in {"off", "load", "storing", "loop", "authorize", "register", "credentials", "vendor",
              "turnoff", "offcheck", "clear", "intent", "storeintent", "subscribe", "oncheck",
              "listen", "handle", "close", "backoff", "drop", "unsub", "unsave", "last", "lastsave"}
  /\ tries \in Nat /\ subscribed \in BOOLEAN
  /\ heard \in SUBSET Calls /\ earlier \in SUBSET Calls
  /\ rang \in [Calls -> Nat] /\ lossy \in BOOLEAN

Stimulus == stimuli < MaxStimuli /\ stimuli' = stimuli + 1
\* Only what goes wrong is counted.
Counted(fine) == IF fine THEN UNCHANGED stimuli ELSE Stimulus

\* The account a QV doorbell was built with is still that of the entry.
ConfigurationValid == vendor = "qv" => config = mine
Eligible == option /\ ConfigurationValid
\* The hub stops; it closes the doorbell after what it stops before.
HubStopped == entry = "stopping"
Stopping == HubStopped /\ closed

-----------------------------------------------------------------------------
(* The private record                                                      *)

\* One write at a time, of a copy made when it begins
SaveBegins(by, data) == save.by = "none" /\ save' = [by |-> by, data |-> data]

\* async_save and the verification of the file: a failed one may have written it
SaveEnds(ok) ==
  /\ save' = NoSave
  /\ disk' \in (IF ok THEN {save.data} ELSE {disk, save.data})

\* Another task's write finished; a cancelled task waits for its own (_finish_task).
Idle == save.by # "run"

-----------------------------------------------------------------------------
(* The vendor and Google                                                   *)

Covered(p) == 0 \in remote \/ ChannelOf(p) \in remote

\* A call goes to the token of every subscription: one of this installation
Press(p) ==
  /\ Stimulus /\ p \notin pressed
  /\ pressed' = pressed \cup {p}
  /\ queued' = [queued EXCEPT ![p] =
       IF vendor = "v1" THEN (IF remote = {} THEN 0 ELSE Max(remote))
       ELSE (IF Covered(p) THEN target ELSE 0)]
  /\ UNCHANGED <<vendor, entryVars, issued, target, remote, diskVars, mem, runVars, obsVars>>

\* FCMReceiver.register: check in with the saved identity, or enroll for a token
Enrolls == mem.token = 0 \/ mem.web
Enroll ==
  /\ issued' = (IF Enrolls THEN issued + 1 ELSE issued)
  /\ UNCHANGED <<target, remote, pressed, queued>>
Enrolled == [mem EXCEPT !.token = IF Enrolls THEN issued + 1 ELSE mem.token, !.web = FALSE]

\* What ends a connection: a refused login, a frame that is late, malformed or too
\* long, the server closing it, a heartbeat without an answer
ConnectionLost == run = "listen" /\ Stimulus

\* The dates of a message, from Google and from MCS: no date, fresh, too old or too
\* far ahead.  _timestamp trusts them when they agree on one.
Dates == {"invalid", "fresh", "stale"}
Timestamp(dates) == IF \E d \in Dates : dates = {d} THEN CHOOSE d \in Dates : dates = {d} ELSE "invalid"
Timely(dates) == Timestamp(dates) = "fresh"

\* A message of this token that the connection has not delivered yet
Incoming(p) == run = "listen" /\ mem.token # 0 /\ queued[p] = mem.token /\ p \notin heard

\* _ack: it may be lost; a closed receiver sends none
Acked(p) ==
  IF closed THEN UNCHANGED queued
  ELSE queued' \in {queued, [queued EXCEPT ![p] = 0]}

\* _cloud_ring of the hub: one that stops rings no more
Ring(p) == rang' = (IF HubStopped THEN rang ELSE [rang EXCEPT ![p] = @ + 1])

=============================================================================
