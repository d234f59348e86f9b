------------------------- MODULE CloudEntry_proofs -------------------------
(***************************************************************************)
(* Proofs about the cloud doorbells, for any number of calls and faults:   *)
(* types, and that what is subscribed can always be removed.               *)
(***************************************************************************)
EXTENDS CloudEntry, TLAPS

\* A record from which everything that is subscribed can be removed
Safe(d) == remote \subseteq d.intents /\ (remote # {} => d.token # 0)

\* The record in memory is the one of this load.
Loaded == IF vendor = "v1" THEN mem.made ELSE run \notin {"off", "load"}

\* Whose the write in progress is, and what has ended with a load
Tasks ==
  /\ entry \in {"setup", "last", "removed"} => run = "off" /\ saver = "idle"
  /\ entry \in {"setup", "removed"} => save.by = "none"
  /\ entry = "last" => vendor = "v1"
  /\ entry = "removing" => vendor = "qv"
  /\ save.by \in {"none", "run", "seen", "last"}
  /\ save.by = "last" => entry = "last"
  /\ save.by = "seen" <=> saver = "saving"

V1Tasks ==
  /\ save.by = "run" => run \in {"storing", "unsave", "credentials", "intent", "lastsave"}
  /\ run \notin {"off", "load"} \/ saver # "idle" => mem.made
  /\ run = "load" => ~mem.made

QvTasks ==
  /\ saver = "idle"
  /\ save.by = "run" <=> run \in {"storing", "credentials", "clear", "storeintent", "handle"}

\* Nothing is subscribed while the run forgets a token, gets one or is about to ask.
V1Steps ==
  /\ run \in {"unsave", "lastsave", "register", "credentials", "intent", "subscribe"} => remote = {}
  /\ run \in {"credentials", "intent", "subscribe"} => mem.token # 0
  /\ run = "intent" /\ save.by = "run" => save.data.intents = {mem.token} /\ save.data.token # 0
  /\ run = "subscribe" => mem.token \in mem.intents /\ mem.token \in disk.intents /\ disk.token # 0
  /\ run = "subscribe" /\ save.by = "seen" => mem.token \in save.data.intents /\ save.data.token # 0
  /\ \A t, u \in remote : t = u

QvSteps ==
  /\ run \in {"turnoff", "offcheck", "intent", "subscribe", "oncheck"} => mem.token # 0
  /\ run \in {"clear", "storeintent"} => save.data.token # 0
  /\ run = "storeintent" => goal \in save.data.intents
  /\ run = "subscribe" => goal \in mem.intents /\ goal \in disk.intents /\ disk.token # 0
  /\ run = "drop" => remote = {}

Recorded ==
  /\ Safe(disk)
  /\ save.by # "none" => Safe(save.data)
  /\ Loaded => Safe(mem)

Rec(d) == d \in [made : BOOLEAN, token : Nat, web : BOOLEAN, intents : {d.intents}, seen : {d.seen}]

\* The record d tells that p was seen, or its token does not bring p again.
Seen(d, p) == p \in d.seen \/ d.token = 0 \/ d.token # queued[p]

Tokens ==
  /\ issued \in Nat /\ target \in 0..issued /\ pressed \subseteq Calls
  /\ queued \in [Calls -> 0..issued] /\ rang \in [Calls -> Nat]
  /\ mem.token \in 0..issued /\ disk.token \in 0..issued
  /\ save.by # "none" => save.data.token \in 0..issued
  /\ vendor = "v1" => remote \subseteq 0..issued
  /\ \A p \in Calls : p \notin pressed => queued[p] = 0 /\ rang[p] = 0

V1Rung ==
  /\ save.by # "none" => mem.made
  /\ save.by = "last" => save.data.seen = mem.seen
  /\ \A p \in Calls : ~lossy =>
       /\ rang[p] \in {0, 1}
       /\ rang[p] # 0 =>
            /\ IF mem.made THEN p \in mem.seen ELSE p \in disk.seen
            /\ entry \in {"setup", "removed"} => p \in disk.seen

QvRung ==
  /\ \A p \in Calls : rang[p] \in {0, 1}
  /\ \A p \in Calls : rang[p] # 0 =>
       /\ Seen(disk, p)
       /\ save.by # "none" => Seen(save.data, p)
       /\ Loaded => Seen(mem, p)
  /\ run = "handle" => \A p \in call :
       p \in pressed /\ queued[p] # 0 /\ rang[p] = 0 /\ p \in mem.seen /\ p \in save.data.seen

IInv ==
  /\ vendor \in {"v1", "qv"} /\ Tokens
  /\ Rec(mem) /\ Rec(disk)
  /\ save.by = "none" \/ Rec(save.data)
  /\ Tasks /\ Recorded
  /\ vendor = "v1" => V1Tasks /\ V1Steps /\ V1Rung
  /\ vendor = "qv" => QvTasks /\ QvSteps /\ QvRung

-----------------------------------------------------------------------------
(* Records, tokens and rings                                               *)

USE DEF IInv, Tasks, Recorded, Safe, Loaded, Rec, V1Tasks, V1Steps, QvTasks, QvSteps, Tokens, V1Rung, QvRung, Seen,
        entryVars, cloudVars, diskVars, obsVars, runVars, v1Vars, qvVars

LEMMA BlankRecord == Rec(Blank) /\ ~Blank.made /\ Blank.token = 0 /\ Blank.intents = {}
BY DEF Blank

\* What is loaded, and what the receiver makes of it, is the record as it was found.
LEMMA Made ==
  ASSUME NEW d, Rec(d)
  PROVE  LET r == [d EXCEPT !.made = TRUE] IN
           Rec(r) /\ r.made /\ r.token = d.token /\ r.intents = d.intents /\ r.seen = d.seen
OBVIOUS

LEMMA EnrolledRecord ==
  ASSUME IInv, Enroll
  PROVE  /\ issued' \in Nat /\ issued <= issued'
         /\ Rec(Enrolled) /\ Enrolled.token # 0 /\ Enrolled.token \in 0..issued'
         /\ Enrolled.token = mem.token \/ Enrolled.token > issued
         /\ Enrolled.intents = mem.intents /\ Enrolled.made = mem.made /\ Enrolled.seen = mem.seen
<1> DEFINE t == IF Enrolls THEN issued + 1 ELSE mem.token
<1>1. /\ t \in Nat /\ t # 0 /\ (t = mem.token \/ t > issued)
      /\ issued' \in Nat /\ issued <= issued' /\ t <= issued'
  BY DEF Enrolls, Enroll
<1>2. t \in 0..issued' BY <1>1
<1>3. Enrolled = [mem EXCEPT !.token = t, !.web = FALSE] BY DEF Enrolled
<1> HIDE DEF t
<1>4. /\ Rec(Enrolled) /\ Enrolled.token = t
      /\ Enrolled.intents = mem.intents /\ Enrolled.made = mem.made /\ Enrolled.seen = mem.seen
  BY <1>1, <1>3
<1> QED BY <1>1, <1>2, <1>4

LEMMA AckedQueue ==
  ASSUME IInv, NEW p \in Calls, Acked(p)
  PROVE  /\ queued' \in [Calls -> 0..issued]
         /\ \A q \in Calls : queued'[q] \in {queued[q], 0}
<1> DEFINE z == 0
<1>1. z \in 0..issued OBVIOUS
<1>2. queued' \in {queued, [queued EXCEPT ![p] = z]} BY DEF Acked
<1> HIDE DEF z
<1>3. /\ queued' \in [Calls -> 0..issued]
      /\ \A q \in Calls : queued'[q] \in {queued[q], z}
  BY <1>1, <1>2
<1> QED BY <1>3 DEF z

LEMMA Rings ==
  ASSUME IInv, NEW p \in Calls, Ring(p)
  PROVE  /\ rang' \in [Calls -> Nat]
         /\ \A q \in Calls : rang'[q] \in {rang[q], rang[q] + 1} /\ (q # p => rang'[q] = rang[q])
BY DEF Ring

\* A call is added to the record in memory.
LEMMA SeenRecord ==
  ASSUME NEW d, Rec(d), NEW p
  PROVE  LET r == [d EXCEPT !.seen = @ \cup {p}] IN
           /\ Rec(r) /\ r.made = d.made /\ r.token = d.token /\ r.intents = d.intents
           /\ r.seen = d.seen \cup {p}
OBVIOUS

LEMMA OneMax ==
  ASSUME NEW S, NEW m \in S, S \subseteq Nat, \A t, u \in S : t = u
  PROVE  Max(S) \in S
<1>1. \E x \in S : \A n \in S : n <= x OBVIOUS
<1> QED BY <1>1 DEF Max

-----------------------------------------------------------------------------
(* The life of an entry keeps the invariant                                *)

LEMMA SetupKeeps == ASSUME IInv, Setup PROVE IInv'
BY DEF Setup, V1Start, QvStart, QvClean, Blank

LEMMA RemoveKeeps == ASSUME IInv, Remove PROVE IInv'
BY DEF Remove

LEMMA UnloadKeeps == ASSUME IInv, Unload PROVE IInv'
BY DEF Unload

LEMMA CloudClosesKeeps == ASSUME IInv, CloudCloses PROVE IInv'
BY DEF CloudCloses, HubStopped

LEMMA RemovedKeeps == ASSUME IInv, Removed PROVE IInv'
BY DEF Removed

LEMMA CrashKeeps == ASSUME IInv, Crash PROVE IInv'
BY DEF Crash, NoSave, Blank

LEMMA ReconfigureKeeps ==
  ASSUME IInv, NEW o \in BOOLEAN, NEW c, NEW a \in BOOLEAN, Reconfigure(o, c, a) PROVE IInv'
BY DEF Reconfigure

LEMMA StoppedKeeps ==
  ASSUME IInv, NEW b \in BOOLEAN, Stopped(b) PROVE IInv'
BY DEF Stopped, SaveEnds, NoSave, Blank

LEMMA PressKeeps ==
  ASSUME IInv, NEW p \in Calls, Press(p), UNCHANGED <<v1Vars, qvVars>> PROVE IInv'
<1> DEFINE to == IF vendor = "v1" THEN (IF remote = {} THEN 0 ELSE Max(remote))
                 ELSE (IF Covered(p) THEN target ELSE 0)
<1>1. to \in 0..issued
  <2>1. vendor = "v1" /\ remote # {} => Max(remote) \in remote BY OneMax
  <2> QED BY <2>1
<1>2. p \notin pressed /\ pressed' = pressed \cup {p} /\ queued' = [queued EXCEPT ![p] = to]
  BY DEF Press
<1>3. UNCHANGED <<vendor, entryVars, issued, target, remote, diskVars, mem, runVars, obsVars>>
  BY DEF Press
<1> HIDE DEF to
<1>4. /\ queued' \in [Calls -> 0..issued]
      /\ \A q \in Calls : q # p => queued'[q] = queued[q]
  BY <1>1, <1>2
<1> QED BY <1>2, <1>3, <1>4

-----------------------------------------------------------------------------
(* The V1 doorbell keeps it                                                *)

LEMMA V1LoadKeeps == ASSUME IInv, vendor = "v1", V1Load, UNCHANGED qvVars PROVE IInv'
<1> DEFINE r == [disk EXCEPT !.made = TRUE]
<1>1. Rec(r) /\ r.made /\ r.token = disk.token /\ r.intents = disk.intents /\ r.seen = disk.seen BY Made
<1>2. /\ run = "load"
      /\ \/ run' = "off" /\ UNCHANGED <<mem, save>>
         \/ run' = "storing" /\ mem' = r /\ SaveBegins("run", r)
  BY DEF V1Load, V1Go
<1>3. UNCHANGED <<vendor, entry, cloudVars, disk, obsVars, v1Vars>>
  BY DEF V1Load, V1Kept, V1Quiet
<1> HIDE DEF r
<1> QED BY <1>1, <1>2, <1>3 DEF SaveBegins

LEMMA V1LoopKeeps == ASSUME IInv, vendor = "v1", V1Loop, UNCHANGED qvVars PROVE IInv'
BY DEF V1Loop, V1Go, V1Kept, V1Quiet

LEMMA V1ForgetKeeps == ASSUME IInv, vendor = "v1", V1Forget, UNCHANGED qvVars PROVE IInv'
BY DEF V1Forget, V1Go, V1Kept, V1Quiet, SaveBegins

LEMMA V1RegisterKeeps == ASSUME IInv, vendor = "v1", V1Register, UNCHANGED qvVars PROVE IInv'
<1>1. Enroll /\ UNCHANGED <<vendor, entry, target, remote, pressed, queued, disk, save, saver, obsVars>>
  BY DEF V1Register, Enroll, V1Kept, V1Quiet
<1>2. run = "register" /\ run' = "credentials" /\ mem' = Enrolled BY DEF V1Register, V1Go
<1> QED BY <1>1, <1>2, EnrolledRecord

LEMMA V1CredentialsKeeps == ASSUME IInv, vendor = "v1", V1Credentials, UNCHANGED qvVars PROVE IInv'
BY DEF V1Credentials, V1Go, V1Kept, V1Quiet, SaveBegins

LEMMA V1IntentKeeps == ASSUME IInv, vendor = "v1", V1Intent, UNCHANGED qvVars PROVE IInv'
BY DEF V1Intent, V1Go, V1Kept, V1Quiet, SaveBegins

LEMMA V1CheckKeeps == ASSUME IInv, vendor = "v1", V1Check, UNCHANGED qvVars PROVE IInv'
BY DEF V1Check, V1Go, V1Kept, V1Quiet

LEMMA V1SeenBeginsKeeps == ASSUME IInv, vendor = "v1", V1SeenBegins, UNCHANGED qvVars PROVE IInv'
BY DEF V1SeenBegins, V1Go, V1Kept, V1Quiet, SaveBegins

LEMMA V1FailsKeeps == ASSUME IInv, vendor = "v1", V1Fails, UNCHANGED qvVars PROVE IInv'
BY DEF V1Fails, V1Go, V1Kept, V1Quiet, ConnectionLost

LEMMA V1ClosesKeeps == ASSUME IInv, vendor = "v1", V1Closes, UNCHANGED qvVars PROVE IInv'
BY DEF V1Closes, V1Go, V1Kept, V1Quiet

LEMMA V1CancelledKeeps == ASSUME IInv, vendor = "v1", V1Cancelled, UNCHANGED qvVars PROVE IInv'
BY DEF V1Cancelled, V1Go, V1Kept, V1Quiet, Idle

LEMMA V1ClosedKeeps == ASSUME IInv, vendor = "v1", V1Closed, UNCHANGED qvVars PROVE IInv'
BY DEF V1Closed, V1Go, V1Kept, V1Quiet

LEMMA V1LastBeginsKeeps == ASSUME IInv, vendor = "v1", V1LastBegins, UNCHANGED qvVars PROVE IInv'
BY DEF V1LastBegins, V1Go, V1Kept, V1Quiet, SaveBegins

LEMMA V1UnsubscribeKeeps ==
  ASSUME IInv, vendor = "v1", NEW a \in BOOLEAN, NEW b \in BOOLEAN, V1Unsubscribe(a, b), UNCHANGED qvVars PROVE IInv'
BY DEF V1Unsubscribe, V1Go, V1Kept, V1Quiet

LEMMA V1SubscribeKeeps ==
  ASSUME IInv, vendor = "v1", NEW a \in BOOLEAN, NEW b \in BOOLEAN, V1Subscribe(a, b), UNCHANGED qvVars PROVE IInv'
BY DEF V1Subscribe, V1Go, V1Kept, V1Quiet

LEMMA V1SeenEndsKeeps ==
  ASSUME IInv, vendor = "v1", NEW b \in BOOLEAN, V1SeenEnds(b), UNCHANGED qvVars PROVE IInv'
BY DEF V1SeenEnds, V1Go, V1Kept, V1Quiet, SaveEnds, NoSave, Blank

LEMMA V1SavedKeeps ==
  ASSUME IInv, vendor = "v1", NEW b \in BOOLEAN, V1Saved(b), UNCHANGED qvVars PROVE IInv'
BY DEF V1Saved, V1Go, V1Kept, V1Quiet, SaveEnds, NoSave, Blank

LEMMA V1MessageKeeps ==
  ASSUME IInv, vendor = "v1", NEW p \in Calls, NEW k, NEW d, V1Message(p, k, d), UNCHANGED qvVars PROVE IInv'
<1> DEFINE r == [mem EXCEPT !.seen = @ \cup {p}]
<1>1. /\ Rec(r) /\ r.made = mem.made /\ r.token = mem.token /\ r.intents = mem.intents
      /\ r.seen = mem.seen \cup {p}
  BY SeenRecord
<1>2. /\ run = "listen" /\ mem.token # 0 /\ queued[p] = mem.token /\ p \notin mem.seen
      /\ mem' = r /\ saver' = (IF saver = "idle" THEN "queued" ELSE saver)
  BY DEF V1Message, Incoming, V1Accepts
<1>3. Acked(p) /\ Ring(p) BY DEF V1Message
<1>4. UNCHANGED <<vendor, entry, run, lossy, issued, target, remote, pressed, disk, save>>
  BY DEF V1Message, V1Kept
<1> HIDE DEF r
<1> QED BY <1>1, <1>2, <1>3, <1>4, AckedQueue, Rings

LEMMA V1IgnoredKeeps ==
  ASSUME IInv, vendor = "v1", NEW p \in Calls, NEW k, NEW d, V1Ignored(p, k, d), UNCHANGED qvVars PROVE IInv'
<1>1. Acked(p) /\ UNCHANGED <<vendor, entry, run, issued, target, remote, pressed, disk, save, mem, saver, obsVars>>
  BY DEF V1Ignored, V1Kept
<1> QED BY <1>1, AckedQueue

-----------------------------------------------------------------------------
(* The QV doorbell keeps it                                                *)

LEMMA QvLoadKeeps == ASSUME IInv, vendor = "qv", QvLoad, UNCHANGED v1Vars PROVE IInv'
<1> DEFINE r == [disk EXCEPT !.made = TRUE]
<1>1. Rec(r) /\ r.made /\ r.token = disk.token /\ r.intents = disk.intents /\ r.seen = disk.seen BY Made
<1>2. /\ run = "load"
      /\ \/ /\ mem' = disk /\ UNCHANGED save
            /\ run' \in {"authorize", "drop", "close"} /\ (run' = "drop" => disk.intents = {})
         \/ run' = "storing" /\ mem' = r /\ SaveBegins("run", r)
  BY DEF QvLoad, Go
<1>3. UNCHANGED <<vendor, entry, cloudVars, disk, obsVars, qvVars>>
  BY DEF QvLoad, Kept, Quiet
<1> HIDE DEF r
<1> QED BY <1>1, <1>2, <1>3 DEF SaveBegins

LEMMA QvLoopKeeps == ASSUME IInv, vendor = "qv", QvLoop, UNCHANGED v1Vars PROVE IInv'
BY DEF QvLoop, Go, Kept, Quiet

LEMMA QvRegisterKeeps == ASSUME IInv, vendor = "qv", QvRegister, UNCHANGED v1Vars PROVE IInv'
<1>1. Enroll /\ UNCHANGED <<vendor, entry, target, remote, pressed, queued, disk, mem, obsVars>>
  BY DEF QvRegister, Enroll, Kept, Quiet
<1>2. run = "register" /\ run' = "credentials" /\ SaveBegins("run", Enrolled) BY DEF QvRegister, Go
<1> QED BY <1>1, <1>2, EnrolledRecord DEF SaveBegins

LEMMA QvOffCheckKeeps == ASSUME IInv, vendor = "qv", QvOffCheck, UNCHANGED v1Vars PROVE IInv'
BY DEF QvOffCheck, Go, Kept, Quiet, SaveBegins, Observed

LEMMA QvIntentKeeps == ASSUME IInv, vendor = "qv", QvIntent, UNCHANGED v1Vars PROVE IInv'
BY DEF QvIntent, Go, Kept, Quiet, SaveBegins

LEMMA QvOnCheckKeeps == ASSUME IInv, vendor = "qv", QvOnCheck, UNCHANGED v1Vars PROVE IInv'
BY DEF QvOnCheck, Go, Kept, Quiet

LEMMA QvClosesKeeps == ASSUME IInv, vendor = "qv", QvCloses, UNCHANGED v1Vars PROVE IInv'
BY DEF QvCloses, Go, Kept, Quiet, Disconnects

LEMMA QvCancelledKeeps == ASSUME IInv, vendor = "qv", QvCancelled, UNCHANGED v1Vars PROVE IInv'
BY DEF QvCancelled, Go, Kept, Quiet, Idle, Disconnects

LEMMA QvDropKeeps == ASSUME IInv, vendor = "qv", QvDrop, UNCHANGED v1Vars PROVE IInv'
<1>1. \/ disk' = Blank /\ mem' = Blank
      \/ UNCHANGED <<disk, mem>>
  BY DEF QvDrop
<1>2. run = "drop" /\ run' = "close" BY DEF QvDrop, Go
<1>3. UNCHANGED <<vendor, entry, cloudVars, save, obsVars>> BY DEF QvDrop, Kept, Quiet
<1> QED BY <1>1, <1>2, <1>3, BlankRecord

LEMMA QvVendorKeeps ==
  ASSUME IInv, vendor = "qv", NEW a \in BOOLEAN, NEW b \in BOOLEAN, QvVendor(a, b), UNCHANGED v1Vars PROVE IInv'
BY DEF QvVendor, Go, Kept, Quiet

LEMMA QvTurnOffKeeps ==
  ASSUME IInv, vendor = "qv", NEW a \in BOOLEAN, NEW b \in BOOLEAN, QvTurnOff(a, b), UNCHANGED v1Vars PROVE IInv'
BY DEF QvTurnOff, Go, Kept, Quiet, Targets

LEMMA QvSubscribeKeeps ==
  ASSUME IInv, vendor = "qv", NEW a \in BOOLEAN, NEW b \in BOOLEAN, QvSubscribe(a, b), UNCHANGED v1Vars PROVE IInv'
BY DEF QvSubscribe, Go, Kept, Quiet

LEMMA QvHandledKeeps ==
  ASSUME IInv, vendor = "qv", NEW a \in BOOLEAN, NEW b \in BOOLEAN, QvHandled(a, b), UNCHANGED v1Vars PROVE IInv'
<1>1. PICK p \in call : (IF a /\ ~b /\ Wanted(p) THEN Ring(p) ELSE UNCHANGED rang) /\ Acked(p)
  BY DEF QvHandled
<1>2. /\ run = "handle" /\ call' = {} /\ run' = "listen"
      /\ save' = NoSave /\ disk' \in (IF a THEN {save.data} ELSE {disk, save.data})
  BY DEF QvHandled, SaveEnds, Go
<1>3. UNCHANGED <<vendor, entry, issued, target, remote, pressed, mem, lossy, goal>>
  BY DEF QvHandled, Kept
<1>4. p \in pressed /\ p \in Calls /\ rang[p] = 0 /\ p \in mem.seen /\ p \in save.data.seen BY <1>1, <1>2
<1>5. save'.by = "none" BY <1>2 DEF NoSave
<1>6. /\ rang' \in [Calls -> Nat]
      /\ \A q \in Calls : rang'[q] = rang[q] \/ (q = p /\ rang'[q] = 1 /\ disk' = save.data)
  BY <1>1, <1>2, <1>4, Rings
<1>7. queued' \in [Calls -> 0..issued] /\ \A q \in Calls : queued'[q] \in {queued[q], 0}
  BY <1>1, <1>4, AckedQueue
<1>8. disk' = save.data \/ disk' = disk BY <1>2
<1>9. save.by = "run" BY <1>2
<1>10. Tokens' BY <1>3, <1>4, <1>5, <1>6, <1>7, <1>8, <1>9
<1>11. (\A q \in Calls : rang[q] # 0 => Seen(disk, q))'
  BY <1>3, <1>4, <1>6, <1>7, <1>8, <1>9
<1>12. QvRung' BY <1>2, <1>3, <1>4, <1>5, <1>6, <1>7, <1>11
<1>13. Recorded' /\ QvSteps' BY <1>2, <1>3, <1>5, <1>8, <1>9
<1> QED BY <1>2, <1>3, <1>5, <1>8, <1>9, <1>10, <1>12, <1>13

LEMMA QvSavedKeeps ==
  ASSUME IInv, vendor = "qv", NEW b \in BOOLEAN, QvSaved(b), UNCHANGED v1Vars PROVE IInv'
BY DEF QvSaved, Go, Kept, Quiet, SaveEnds, NoSave, Blank

LEMMA QvFailsKeeps ==
  ASSUME IInv, vendor = "qv", NEW b \in BOOLEAN, QvFails(b), UNCHANGED v1Vars PROVE IInv'
BY DEF QvFails, Go, Kept, Quiet, Steps, ConnectionLost

LEMMA QvAuthorizeKeeps ==
  ASSUME IInv, vendor = "qv", NEW s, NEW o, QvAuthorize(s, o), UNCHANGED v1Vars PROVE IInv'
BY DEF QvAuthorize, Go, Kept, Quiet

LEMMA QvMessageKeeps ==
  ASSUME IInv, vendor = "qv", NEW p \in Calls, NEW d, QvMessage(p, d), UNCHANGED v1Vars PROVE IInv'
<1> DEFINE r == [mem EXCEPT !.seen = @ \cup {p}]
<1>1. /\ Rec(r) /\ r.made = mem.made /\ r.token = mem.token /\ r.intents = mem.intents
      /\ r.seen = mem.seen \cup {p}
  BY SeenRecord
<1>2. /\ run = "listen" /\ mem.token # 0 /\ queued[p] = mem.token /\ p \notin mem.seen
      /\ mem' = r /\ call' = {p} /\ run' = "handle" /\ SaveBegins("run", r)
  BY DEF QvMessage, Incoming, Accepts, Go
<1>3. UNCHANGED <<vendor, entry, cloudVars, disk, goal, obsVars>>
  BY DEF QvMessage, Kept
<1> HIDE DEF r
<1>4. rang[p] = 0 BY <1>2
<1> QED BY <1>1, <1>2, <1>3, <1>4 DEF SaveBegins

LEMMA QvIgnoredKeeps ==
  ASSUME IInv, vendor = "qv", NEW p \in Calls, NEW d, QvIgnored(p, d), UNCHANGED v1Vars PROVE IInv'
<1>1. run = "listen" /\ Acked(p)
      /\ UNCHANGED <<vendor, entry, run, issued, target, remote, pressed, disk, save, mem, obsVars, qvVars>>
  BY DEF QvIgnored, Incoming, Kept
<1> QED BY <1>1, AckedQueue

HIDE DEF IInv

-----------------------------------------------------------------------------
LEMMA InitSafe == ASSUME Init PROVE IInv
<1> DEFINE none == 0
           one == 1
           old == [made |-> TRUE, token |-> one, web |-> TRUE, intents |-> {one}, seen |-> {}]
<1>1. Rec(old) /\ old.token = one /\ old.intents = {one} /\ old.seen = {} /\ one \in Nat /\ one # 0
  <2>1. one \in Nat /\ one # 0 OBVIOUS
  <2> HIDE DEF one
  <2> QED BY <2>1
<1>2. /\ vendor \in {"v1", "qv"} /\ (disk = Blank \/ (vendor = "qv" /\ disk = old))
      /\ mem = Blank /\ save = NoSave
      /\ issued = disk.token /\ target = disk.token /\ remote = disk.intents
      /\ pressed = {} /\ entry = "setup" /\ run = "off" /\ saver = "idle"
  BY DEF Init, V1Init
<1>3. rang = [p \in Calls |-> none] /\ queued = [p \in Calls |-> none] BY DEF Init
<1>4. save.by = "none" BY <1>2 DEF NoSave
<1>5. none \in Nat /\ none = 0 /\ (issued \in Nat => none \in 0..issued) OBVIOUS
<1> HIDE DEF old, none, one
<1>6. /\ \A p \in Calls : rang[p] = none /\ queued[p] = none
      /\ rang \in [Calls -> Nat] /\ (issued \in Nat => queued \in [Calls -> 0..issued])
  BY <1>3, <1>5
<1>7. /\ issued \in Nat /\ Rec(disk) /\ Rec(mem) /\ disk.token = issued
      /\ ~mem.made /\ mem.token = 0
      /\ Safe(disk) /\ (vendor = "v1" => remote = {})
  BY <1>1, <1>2, BlankRecord
<1>8. vendor \in {"v1", "qv"} BY <1>2
<1> QED BY <1>2, <1>4, <1>5, <1>6, <1>7, <1>8 DEF IInv

LEMMA V1StepKeeps == ASSUME IInv, vendor = "v1", V1Step, UNCHANGED qvVars PROVE IInv'
BY V1LoadKeeps, V1LoopKeeps, V1ForgetKeeps, V1RegisterKeeps, V1CredentialsKeeps, V1IntentKeeps,
   V1CheckKeeps, V1SeenBeginsKeeps, V1FailsKeeps, V1ClosesKeeps, V1CancelledKeeps, V1ClosedKeeps,
   V1LastBeginsKeeps, V1UnsubscribeKeeps, V1SubscribeKeeps, V1MessageKeeps, V1IgnoredKeeps,
   V1SeenEndsKeeps, V1SavedKeeps
DEF V1Step

LEMMA QvStepKeeps == ASSUME IInv, vendor = "qv", QvStep, UNCHANGED v1Vars PROVE IInv'
BY QvLoadKeeps, QvLoopKeeps, QvRegisterKeeps, QvOffCheckKeeps, QvIntentKeeps, QvOnCheckKeeps,
   QvClosesKeeps, QvCancelledKeeps, QvDropKeeps, QvAuthorizeKeeps, QvVendorKeeps, QvTurnOffKeeps,
   QvSubscribeKeeps, QvHandledKeeps, QvMessageKeeps, QvIgnoredKeeps, QvSavedKeeps, QvFailsKeeps
DEF QvStep

LEMMA LifeKeeps == ASSUME IInv, Life PROVE IInv'
BY SetupKeeps, RemoveKeeps, UnloadKeeps, CloudClosesKeeps, RemovedKeeps, CrashKeeps,
   ReconfigureKeeps, StoppedKeeps, PressKeeps
DEF Life

LEMMA StutterKeeps == ASSUME IInv, UNCHANGED vars PROVE IInv'
BY DEF IInv, vars

\* The inductive invariant: every record a load may start from, memory and files alike,
\* is sound, whatever task, reply, save or crash comes next.
THEOREM IInvInvariant == Spec => []IInv
<1>1. ASSUME IInv, [Next]_vars PROVE IInv'
  BY <1>1, V1StepKeeps, QvStepKeeps, LifeKeeps, StutterKeeps DEF Next
<1> QED BY <1>1, InitSafe, PTL DEF Spec

\* What is subscribed at the vendor is in the saved record with a token, because the
\* intent was saved before the request (_subscribe, _save_confirmed) and is dropped only
\* after the vendor dropped it.
THEOREM RemoteIsRememberedTheorem == Spec => []RemoteIsRemembered
<1>1. IInv => RemoteIsRemembered BY DEF IInv, RemoteIsRemembered
<1> QED BY <1>1, IInvInvariant, PTL

\* A call that rang is in every record of its token (_message), so that it rings once.
THEOREM RungOnceTheorem == Spec => []RungOnce
<1>1. IInv => RungOnce BY DEF IInv, RungOnce
<1> QED BY <1>1, IInvInvariant, PTL

\* No run, no writer of calls seen and no save survive the unload of their load (_close).
THEOREM StoppedIsQuietTheorem == Spec => []StoppedIsQuiet
<1>1. IInv => StoppedIsQuiet BY DEF IInv, StoppedIsQuiet
<1> QED BY <1>1, IInvInvariant, PTL

-----------------------------------------------------------------------------
(* Rings                                                                   *)

\* What a step of the property must not do
Unwanted(p) ==
  rang'[p] # rang[p] /\ ~(~HubStopped /\ ~closed /\ Eligible /\ subscribed
                          /\ (vendor = "qv" => ChannelOf(p) \in channels))

LEMMA V1RingsWanted == ASSUME IInv, vendor = "v1", V1Step PROVE \A p \in Calls : ~Unwanted(p)
<1>1. ASSUME NEW q \in Calls, NEW k, NEW d, V1Message(q, k, d) PROVE \A p \in Calls : ~Unwanted(p)
  <2>1. ~closed /\ Eligible /\ subscribed /\ Ring(q) BY <1>1 DEF V1Message, V1Accepts
  <2>2. \A p \in Calls : rang'[p] # rang[p] => ~HubStopped BY <2>1 DEF Ring
  <2> QED BY <2>1, <2>2, <1>1 DEF Unwanted, IInv
<1>2. ASSUME ~\E q \in Calls, k \in Kinds : \E d \in SUBSET Dates : V1Message(q, k, d)
      PROVE  UNCHANGED rang
  BY <1>2 DEF V1Step, V1Load, V1Loop, V1Forget, V1Register, V1Credentials, V1Intent, V1Check, V1SeenBegins,
    V1Fails, V1Closes, V1Cancelled, V1Closed, V1LastBegins, V1Unsubscribe, V1Subscribe, V1Ignored,
    V1SeenEnds, V1Saved, V1Quiet
<1> QED BY <1>1, <1>2 DEF Unwanted

LEMMA QvRingsWanted == ASSUME IInv, vendor = "qv", QvStep PROVE \A p \in Calls : ~Unwanted(p)
<1>1. ASSUME NEW a \in BOOLEAN, NEW b \in BOOLEAN, QvHandled(a, b) PROVE \A p \in Calls : ~Unwanted(p)
  <2>1. PICK q \in call : IF a /\ ~b /\ Wanted(q) THEN Ring(q) ELSE UNCHANGED rang
    BY <1>1 DEF QvHandled
  <2>2. \A p \in Calls : rang'[p] # rang[p] => p = q /\ Wanted(q) /\ ~HubStopped
    BY <2>1 DEF Ring, IInv
  <2> QED BY <2>2 DEF Unwanted, Wanted, Open
<1>2. ASSUME ~\E a \in BOOLEAN, b \in BOOLEAN : QvHandled(a, b)
      PROVE  UNCHANGED rang
  BY <1>2 DEF QvStep, QvLoad, QvLoop, QvRegister, QvOffCheck, QvIntent, QvOnCheck, QvCloses, QvCancelled, QvDrop,
    QvAuthorize, QvVendor, QvTurnOff, QvSubscribe, QvMessage, QvIgnored, QvSaved, QvFails, Quiet
<1> QED BY <1>1, <1>2 DEF Unwanted

LEMMA LifeRingsNothing == ASSUME Life PROVE UNCHANGED rang
BY DEF Life, Setup, Remove, Unload, CloudCloses, Removed, Crash, Reconfigure, Stopped, Press

\* No ring of a doorbell that is closed, disabled, reconfigured or not subscribed, although
\* a QV call is saved before it rings (_message looks again after the save).
THEOREM RingWantedTheorem == Spec => RingWanted
<1>1. ASSUME IInv, [Next]_vars PROVE \A p \in Calls : ~Unwanted(p)
  <2>1. CASE Next
    <3>1. CASE Life BY <3>1, LifeRingsNothing DEF Unwanted
    <3>2. CASE vendor = "v1" /\ V1Step BY <3>2, <1>1, V1RingsWanted
    <3>3. CASE vendor = "qv" /\ QvStep BY <3>3, <1>1, QvRingsWanted
    <3> QED BY <2>1, <3>1, <3>2, <3>3 DEF Next
  <2>2. CASE UNCHANGED vars BY <2>2 DEF vars, Unwanted
  <2> QED BY <1>1, <2>1, <2>2
<1>2. ASSUME IInv, [Next]_vars
      PROVE  [\A p \in Calls : rang'[p] # rang[p] =>
                ~HubStopped /\ ~closed /\ Eligible /\ subscribed
                /\ (vendor = "qv" => ChannelOf(p) \in channels)]_vars
  BY <1>1, <1>2 DEF Unwanted
<1> QED BY <1>2, IInvInvariant, PTL DEF RingWanted, Spec

-----------------------------------------------------------------------------
(* The doorbell that CloudBell promises                                    *)

\* A doorbell is closed before its last save.
LastClosed == entry = "last" => closed

LEMMA LastClosedKept == ASSUME IInv, LastClosed, [Next]_vars PROVE LastClosed'
<1>1. CASE Life
  BY <1>1 DEF Life, Setup, Remove, Unload, CloudCloses, Removed, Crash, Reconfigure, Stopped, Press, LastClosed
<1>2. CASE V1Step /\ V1Closed
  BY <1>2 DEF V1Closed, Stopping, LastClosed
<1>3. CASE V1Step /\ ~V1Closed
  <2>1. UNCHANGED <<entry, closed>>
    BY <1>3 DEF V1Step, V1Load, V1Loop, V1Forget, V1Register, V1Credentials, V1Intent, V1Check, V1SeenBegins,
      V1Fails, V1Closes, V1Cancelled, V1LastBegins, V1Unsubscribe, V1Subscribe, V1Message, V1Ignored,
      V1SeenEnds, V1Saved, V1Kept
  <2> QED BY <2>1 DEF LastClosed
<1>4. CASE QvStep
  <2>1. UNCHANGED <<entry, closed>>
    BY <1>4 DEF QvStep, QvLoad, QvLoop, QvRegister, QvOffCheck, QvIntent, QvOnCheck, QvCloses, QvCancelled, QvDrop,
      QvAuthorize, QvVendor, QvTurnOff, QvSubscribe, QvHandled, QvMessage, QvIgnored, QvSaved, QvFails, Kept
  <2> QED BY <2>1 DEF LastClosed
<1>5. CASE UNCHANGED vars
  BY <1>5 DEF vars, LastClosed
<1> QED BY <1>1, <1>2, <1>3, <1>4, <1>5 DEF Next

LEMMA RemoteRemovable == IInv => remote \subseteq Removable
BY DEF IInv, Removable

\* A step that asks the vendor for nothing and rings nothing: a save, or a crash
\* when it ends what was open.
LEMMA SaveRefines ==
  ASSUME IInv, IInv', UNCHANGED <<vendor, remote, pressed, queued, rang>>, lossy => lossy',
         Opened' => Opened
  PROVE  [Bell!Next]_(Bell!vars)
<1>1. remote \subseteq Removable'
  BY DEF IInv, Removable
<1>2. UNCHANGED <<remote, pressed, Due, rang>> /\ (Careless => Careless')
  BY DEF Due, Careless
<1>3. CASE ~Opened'
  <2>1. Bell!Crash BY <1>1, <1>2, <1>3 DEF Bell!Crash, Bell!Complete
  <2> QED BY <2>1 DEF Bell!Next
<1>4. CASE Opened'
  <2>1. UNCHANGED Opened BY <1>4
  <2>2. Bell!Save BY <1>1, <1>2, <2>1 DEF Bell!Save, Bell!Complete
  <2> QED BY <2>2 DEF Bell!Next
<1> QED BY <1>3, <1>4

\* A step that moves nothing but where the entry is.
LEMMA SwitchRefines ==
  ASSUME UNCHANGED <<vendor, remote, disk, pressed, queued, rang, lossy>>
  PROVE  [Bell!Next]_(Bell!vars)
<1>1. UNCHANGED <<remote, Removable, pressed, Due, rang, Careless>>
  BY DEF Removable, Due, Careless
<1>2. CASE UNCHANGED Opened
  BY <1>1, <1>2 DEF Bell!vars
<1>3. CASE ~UNCHANGED Opened
  <2>1. Opened' = ~Opened
    <3>1. Opened \in BOOLEAN /\ Opened' \in BOOLEAN BY DEF Opened, Eligible, ConfigurationValid
    <3> QED BY <1>3, <3>1
  <2>2. Bell!Switch BY <1>1, <2>1 DEF Bell!Switch
  <2> QED BY <2>2 DEF Bell!Next
<1> QED BY <1>2, <1>3

\* The vendor is asked, of what is remembered; or it forgets.
LEMMA AskRefines ==
  ASSUME UNCHANGED <<vendor, entry, option, config, mine, closed, disk, pressed, queued, rang, lossy>>,
         \/ remote' \in SUBSET remote
         \/ \E g \in Removable : remote' = remote \cup {g}
  PROVE  [Bell!Next]_(Bell!vars)
<1>1. UNCHANGED <<Removable, Opened, pressed, Due, rang, Careless>>
  BY DEF Removable, Due, Careless, Opened, HubStopped, Eligible, ConfigurationValid
<1>2. CASE remote' \in SUBSET remote
  BY <1>1, <1>2 DEF Bell!Next, Bell!Remove
<1>3. ASSUME NEW g \in Removable, remote' = remote \cup {g} PROVE Bell!Next
  <2>1. Bell!Subscribe(g) BY <1>1, <1>3 DEF Bell!Subscribe
  <2> QED BY <2>1 DEF Bell!Next
<1> QED BY <1>2, <1>3

\* A call is pressed while something is subscribed, or it is not due.
LEMMA PressRefines ==
  ASSUME IInv, NEW p \in Calls, Press(p), UNCHANGED <<v1Vars, qvVars>>
  PROVE  [Bell!Next]_(Bell!vars)
<1>1. /\ UNCHANGED <<vendor, entry, option, config, mine, closed, remote, disk, rang, lossy>>
      /\ p \notin pressed /\ pressed' = pressed \cup {p}
      /\ \E to : queued' = [queued EXCEPT ![p] = to] /\ (remote = {} => to = 0)
  BY DEF Press, Covered
<1>2. UNCHANGED <<Removable, Opened, rang, Careless>>
  BY <1>1 DEF Removable, Careless, Opened, HubStopped, Eligible, ConfigurationValid
<1>3. queued \in [Calls -> 0..issued] /\ queued[p] = 0
  BY <1>1 DEF IInv
<1>4. Due' \in {Due} \cup (IF remote = {} THEN {} ELSE {Due \cup {p}})
  <2>1. PICK to : queued' = [queued EXCEPT ![p] = to] /\ (remote = {} => to = 0) BY <1>1
  <2>2. Due' = IF to = 0 THEN Due ELSE Due \cup {p} BY <1>3, <2>1 DEF Due
  <2> QED BY <2>1, <2>2
<1>5. Bell!Press(p) BY <1>1, <1>2, <1>4 DEF Bell!Press
<1> QED BY <1>5 DEF Bell!Next

\* The message of a call is answered, with a save behind it or not; it rings or it does not.
LEMMA DeliverRefines ==
  ASSUME IInv, IInv', NEW p \in Calls, queued[p] # 0, Acked(p),
         UNCHANGED <<vendor, entry, option, config, mine, closed, remote, pressed, lossy>>,
         rang' = rang \/ (Ring(p) /\ ~closed /\ Eligible /\ (rang[p] = 0 \/ Careless))
  PROVE  [Bell!Next]_(Bell!vars)
<1>1. UNCHANGED <<Opened, Careless>>
  BY DEF Careless, Opened, HubStopped, Eligible, ConfigurationValid
<1>2. remote \subseteq Removable'
  BY DEF IInv, Removable
<1>3. p \in Due /\ Due' \in {Due, Due \ {p}}
  <2>1. queued \in [Calls -> 0..issued] BY DEF IInv
  <2>2. queued' = queued \/ queued' = [queued EXCEPT ![p] = 0] BY DEF Acked
  <2> QED BY <2>1, <2>2 DEF Due
<1>4. Bell!Rings(p) \/ UNCHANGED rang
  <2>1. ASSUME ~UNCHANGED rang PROVE Bell!Rings(p)
    <3>1. rang' = [rang EXCEPT ![p] = @ + 1] /\ ~HubStopped BY <2>1 DEF Ring
    <3> QED BY <2>1, <3>1 DEF Bell!Rings, Opened
  <2> QED BY <2>1
<1>5. Bell!Deliver(p) BY <1>1, <1>2, <1>3, <1>4 DEF Bell!Deliver, Bell!Complete
<1> QED BY <1>5 DEF Bell!Next

LEMMA LifeRefines ==
  ASSUME IInv, IInv', LastClosed, Life
  PROVE  [Bell!Next]_(Bell!vars)
<1>1. CASE Setup \/ Remove \/ Unload \/ CloudCloses \/ Removed
           \/ \E o \in BOOLEAN, c \in {{1}, {1, 2}}, a \in BOOLEAN : Reconfigure(o, c, a)
  <2>1. UNCHANGED <<vendor, remote, disk, pressed, queued, rang, lossy>>
    BY <1>1 DEF Setup, Remove, Unload, CloudCloses, Removed, Reconfigure
  <2> QED BY <2>1, SwitchRefines
<1>2. CASE Crash
  <2>1. /\ UNCHANGED <<vendor, remote, pressed, queued, rang>> /\ lossy' = TRUE
        /\ closed' = TRUE
    BY <1>2 DEF Crash
  <2> QED BY <2>1, SaveRefines DEF Opened
<1>3. ASSUME NEW b \in BOOLEAN, Stopped(b) PROVE [Bell!Next]_(Bell!vars)
  <2>1. UNCHANGED <<vendor, closed, remote, pressed, queued, rang>> /\ (lossy => lossy')
    BY <1>3 DEF Stopped
  <2>2. closed BY <1>3 DEF Stopped, Stopping, LastClosed
  <2> QED BY <2>1, <2>2, SaveRefines DEF Opened
<1>4. ASSUME NEW p \in Calls, Press(p) /\ UNCHANGED <<v1Vars, qvVars>> PROVE [Bell!Next]_(Bell!vars)
  BY <1>4, PressRefines
<1> QED BY <1>1, <1>2, <1>3, <1>4 DEF Life

LEMMA V1Refines ==
  ASSUME IInv, IInv', vendor = "v1", V1Step
  PROVE  [Bell!Next]_(Bell!vars)
<1>1. CASE \/ V1Load \/ V1Loop \/ V1Forget \/ V1Register \/ V1Credentials \/ V1Intent \/ V1Check
           \/ V1SeenBegins \/ V1Fails \/ V1Closes \/ V1Cancelled \/ V1LastBegins
           \/ \E b \in BOOLEAN : V1SeenEnds(b) \/ V1Saved(b)
  <2>0. ASSUME NEW b \in BOOLEAN, V1SeenEnds(b) \/ V1Saved(b)
        PROVE  UNCHANGED <<vendor, entry, option, config, mine, closed, remote, pressed, queued, rang>>
               /\ (lossy => lossy')
    <3>1. UNCHANGED <<vendor, entry, option, config, mine, closed, remote, pressed, queued, rang>>
      BY <2>0 DEF V1SeenEnds, V1Saved, V1Kept, V1Quiet
    <3>2. lossy' = lossy \/ lossy' = (lossy \/ ~b)
      BY <2>0 DEF V1SeenEnds, V1Saved, V1Quiet
    <3>3. lossy => lossy' BY <3>2
    <3> QED BY <3>1, <3>3
  <2>1. /\ UNCHANGED <<vendor, entry, option, config, mine, closed, remote, pressed, queued, rang>>
        /\ lossy => lossy'
    BY <1>1, <2>0 DEF V1Load, V1Loop, V1Forget, V1Register, V1Credentials, V1Intent, V1Check, V1SeenBegins,
      V1Fails, V1Closes, V1Cancelled, V1LastBegins, V1Kept, V1Quiet, Enroll
  <2>2. Opened' => Opened BY <2>1 DEF Opened, HubStopped, Eligible, ConfigurationValid
  <2> QED BY <2>1, <2>2, SaveRefines
<1>2. CASE V1Closed
  <2>1. UNCHANGED <<vendor, remote, disk, pressed, queued, rang, lossy>> BY <1>2 DEF V1Closed
  <2> QED BY <2>1, SwitchRefines
<1>3. ASSUME NEW a \in BOOLEAN, NEW b \in BOOLEAN, V1Unsubscribe(a, b) \/ V1Subscribe(a, b)
      PROVE  [Bell!Next]_(Bell!vars)
  <2>1. UNCHANGED <<vendor, entry, option, config, mine, closed, disk, pressed, queued, rang, lossy>>
    BY <1>3 DEF V1Unsubscribe, V1Subscribe, V1Kept, V1Quiet
  <2>2. \/ remote' \in SUBSET remote
        \/ run = "subscribe" /\ remote' = remote \cup {mem.token}
    BY <1>3 DEF V1Unsubscribe, V1Subscribe
  <2>3. run = "subscribe" => mem.token \in Removable BY DEF IInv, Removable
  <2> QED BY <2>1, <2>2, <2>3, AskRefines
<1>4. ASSUME NEW p \in Calls, NEW k, NEW d, V1Message(p, k, d) \/ V1Ignored(p, k, d)
      PROVE  [Bell!Next]_(Bell!vars)
  <2>1. /\ UNCHANGED <<vendor, entry, option, config, mine, closed, remote, pressed, lossy>>
        /\ Acked(p) /\ queued[p] = mem.token /\ mem.token # 0 /\ run = "listen"
        /\ rang' = rang \/ (Ring(p) /\ V1Accepts(p))
    BY <1>4 DEF V1Message, V1Ignored, V1Kept, Incoming
  <2>2. V1Accepts(p) => ~closed /\ Eligible /\ (rang[p] = 0 \/ Careless)
    BY <2>1 DEF V1Accepts, Careless, IInv
  <2> QED BY <2>1, <2>2, DeliverRefines
<1> QED BY <1>1, <1>2, <1>3, <1>4 DEF V1Step

LEMMA QvRefines ==
  ASSUME IInv, IInv', vendor = "qv", QvStep
  PROVE  [Bell!Next]_(Bell!vars)
<1>1. CASE \/ QvLoad \/ QvLoop \/ QvRegister \/ QvOffCheck \/ QvIntent \/ QvOnCheck
           \/ QvCloses \/ QvCancelled \/ QvDrop
           \/ \E s \in {"device", "channel"}, owned \in {{1}, {1, 2}} : QvAuthorize(s, owned)
           \/ \E a \in BOOLEAN, b \in BOOLEAN : QvVendor(a, b)
           \/ \E p \in Calls : \E d \in SUBSET Dates : QvMessage(p, d)
           \/ \E b \in BOOLEAN : QvSaved(b) \/ QvFails(b)
  <2>1. UNCHANGED <<vendor, entry, option, config, mine, closed, remote, pressed, queued, rang, lossy>>
    BY <1>1 DEF QvLoad, QvLoop, QvRegister, QvOffCheck, QvIntent, QvOnCheck, QvCloses, QvCancelled, QvDrop,
      QvAuthorize, QvVendor, QvMessage, QvSaved, QvFails, Kept, Quiet, Enroll
  <2>2. Opened' => Opened BY <2>1 DEF Opened, HubStopped, Eligible, ConfigurationValid
  <2> QED BY <2>1, <2>2, SaveRefines
<1>2. ASSUME NEW a \in BOOLEAN, NEW b \in BOOLEAN, QvTurnOff(a, b) \/ QvSubscribe(a, b)
      PROVE  [Bell!Next]_(Bell!vars)
  <2>1. UNCHANGED <<vendor, entry, option, config, mine, closed, disk, pressed, queued, rang, lossy>>
    BY <1>2 DEF QvTurnOff, QvSubscribe, Kept, Quiet
  <2>2. \/ remote' \in SUBSET remote
        \/ run = "subscribe" /\ remote' = remote \cup {goal}
    BY <1>2 DEF QvTurnOff, QvSubscribe
  <2>3. run = "subscribe" => goal \in Removable BY DEF IInv, Removable
  <2> QED BY <2>1, <2>2, <2>3, AskRefines
<1>3. ASSUME NEW a \in BOOLEAN, NEW b \in BOOLEAN, QvHandled(a, b) PROVE [Bell!Next]_(Bell!vars)
  <2>1. PICK p \in call : (IF a /\ ~b /\ Wanted(p) THEN Ring(p) ELSE UNCHANGED rang) /\ Acked(p)
    BY <1>3 DEF QvHandled
  <2>2. UNCHANGED <<vendor, entry, option, config, mine, closed, remote, pressed, lossy>> /\ run = "handle"
    BY <1>3 DEF QvHandled, Kept
  <2>3. p \in Calls /\ queued[p] # 0 /\ rang[p] = 0 BY <2>1, <2>2 DEF IInv
  <2>4. rang' = rang \/ (Ring(p) /\ ~closed /\ Eligible) BY <2>1 DEF Wanted, Open
  <2> QED BY <2>1, <2>2, <2>3, <2>4, DeliverRefines
<1>4. ASSUME NEW p \in Calls, NEW d, QvIgnored(p, d) PROVE [Bell!Next]_(Bell!vars)
  <2>1. /\ UNCHANGED <<vendor, entry, option, config, mine, closed, remote, pressed, rang, lossy>>
        /\ Acked(p) /\ queued[p] = mem.token /\ mem.token # 0
    BY <1>4 DEF QvIgnored, Kept, Incoming
  <2> QED BY <2>1, DeliverRefines
<1> QED BY <1>1, <1>2, <1>3, <1>4 DEF QvStep

\* Both doorbells, with their tasks, files, tokens and lost replies, are the one that
\* CloudBell promises: asked for only what the record can remove, forgotten only when it
\* is off, rung once per call while open (_subscribe, _save_confirmed, _message, _close).
THEOREM CloudImplementsBell == Spec => ImplementsBell
<1>1. Init => Bell!Init
  <2> SUFFICES ASSUME Init PROVE Bell!Init OBVIOUS
  <2>1. remote \subseteq Removable BY InitSafe, RemoteRemovable
  <2>2. closed = TRUE /\ pressed = {} /\ lossy = FALSE
        /\ rang = [p \in Calls |-> 0] /\ queued = [p \in Calls |-> 0]
    BY DEF Init
  <2>3. Opened = FALSE /\ Careless = FALSE /\ Due = {} BY <2>2 DEF Opened, Careless, Due
  <2> QED BY <2>1, <2>2, <2>3 DEF Bell!Init
<1>2. Init => LastClosed
  BY DEF Init, LastClosed
<1>3. ASSUME IInv, LastClosed, [Next]_vars PROVE LastClosed'
  BY <1>3, LastClosedKept
<1>4. ASSUME IInv, IInv', LastClosed, [Next]_vars PROVE [Bell!Next]_(Bell!vars)
  <2>1. CASE UNCHANGED vars
    <3>1. UNCHANGED <<vendor, remote, disk, pressed, queued, rang, lossy>> BY <2>1 DEF vars
    <3> QED BY <3>1, SwitchRefines
  <2> QED BY <1>4, <2>1, LifeRefines, V1Refines, QvRefines DEF Next
<1> QED BY <1>1, <1>2, <1>3, <1>4, IInvInvariant, PTL DEF Spec, ImplementsBell, Bell!Spec

-----------------------------------------------------------------------------
(* Types                                                                     *)

\* What is asked of the QV vendor is a channel or the device, because a run that is
\* past the authorization has a channel to subscribe, or only removes.
Asking == {"register", "credentials", "vendor", "turnoff", "offcheck", "clear",
           "intent", "storeintent", "subscribe", "oncheck"}

QvKnown ==
  /\ remote \subseteq Grants /\ mem.intents \subseteq Grants /\ disk.intents \subseteq Grants
  /\ save.data.intents \subseteq Grants
  /\ run \in Asking /\ ~clean /\ scope = "channel" => allowed # {}

TypeInv == TypeOK /\ (vendor = "qv" => QvKnown)

LEMMA BlankData ==
  /\ Blank \in Data /\ Blank.intents = {}
  /\ NoSave \in Write /\ NoSave.by = "none" /\ NoSave.data = Blank
BY DEF Blank, NoSave, Data, Write

LEMMA MadeData == ASSUME NEW d \in Data PROVE [d EXCEPT !.made = TRUE] \in Data
BY DEF Data

LEMMA SeenData ==
  ASSUME NEW d \in Data, NEW p \in Calls
  PROVE  [d EXCEPT !.seen = @ \cup {p}] \in Data /\ [d EXCEPT !.seen = @ \cup {p}].intents = d.intents
BY DEF Data

LEMMA IntentsData ==
  ASSUME NEW d \in Data, NEW S \in SUBSET Nat
  PROVE  [d EXCEPT !.intents = S] \in Data /\ [d EXCEPT !.intents = S].intents = S
BY DEF Data

LEMMA EnrolledData ==
  ASSUME mem \in Data, issued \in Nat
  PROVE  Enrolled \in Data /\ Enrolled.intents = mem.intents
<1> DEFINE t == IF Enrolls THEN issued + 1 ELSE mem.token
<1>1. t \in Nat BY DEF Data
<1>2. Enrolled = [mem EXCEPT !.token = t, !.web = FALSE] BY DEF Enrolled
<1> HIDE DEF t
<1> QED BY <1>1, <1>2 DEF Data

LEMMA DataFields ==
  ASSUME NEW d \in Data
  PROVE  d.made \in BOOLEAN /\ d.token \in Nat /\ d.intents \in SUBSET Nat /\ d.seen \in SUBSET Calls
BY DEF Data

\* A write of a record is one that was valid.
LEMMA BeginsWrite ==
  ASSUME NEW by \in {"run", "seen", "last"}, NEW d \in Data, SaveBegins(by, d)
  PROVE  save' \in Write /\ save'.data = d
BY DEF SaveBegins, Write

LEMMA EndsWrite ==
  ASSUME disk \in Data, save \in Write, NEW ok \in BOOLEAN, SaveEnds(ok)
  PROVE  /\ save' = NoSave /\ disk' \in Data /\ save.data \in Data
         /\ disk' \in {disk, save.data}
BY DEF SaveEnds, Write

\* The first of some subscriptions is one of them.
LEMMA FirstGrant == ASSUME NEW S \in SUBSET Grants, S # {} PROVE First(S) \in Grants
<1>1. CASE S = {0}
  BY <1>1 DEF First, Grants
<1>2. CASE S # {0}
  <2>1. S \ {0} # {} /\ S \ {0} \subseteq 0..2
    BY <1>2 DEF Grants
  <2>2. \E g \in S \ {0} : \A h \in S \ {0} : g <= h
    BY <2>1
  <2>3. First(S) \in S \ {0}
    BY <1>2, <2>2 DEF First
  <2> QED BY <2>3
<1> QED BY <1>1, <1>2

LEMMA GrantsOnly == ASSUME TypeInv PROVE Targets \subseteq Grants
<1>1. allowed \subseteq {1, 2} BY DEF TypeInv, TypeOK, QvTypeOK
<1>2. {0} \subseteq 0..2 /\ {1, 2} \subseteq 0..2 OBVIOUS
<1> QED BY <1>1, <1>2 DEF Targets, Grants

LEMMA CountType ==
  ASSUME stimuli \in 0..MaxStimuli, NEW b \in BOOLEAN, Counted(b) \/ Stimulus \/ UNCHANGED stimuli
  PROVE  stimuli' \in 0..MaxStimuli
BY FcmAssumption DEF Counted, Stimulus

LEMMA SetupTypes ==
  ASSUME IInv, TypeInv, Setup PROVE TypeInv'
<1>1. FcmTypeOK'
  BY BlankData DEF Setup, V1Start, QvStart, QvClean, Write, TypeInv, TypeOK, FcmTypeOK
<1>2. V1TypeOK' /\ QvTypeOK'
  BY BlankData DEF Setup, V1Start, QvStart, QvClean, Write, TypeInv, TypeOK, FcmTypeOK, V1TypeOK,
     QvTypeOK, QvKnown
<1>3. (vendor = "qv" => QvKnown)'
  BY BlankData DEF Setup, V1Start, QvStart, QvClean, Write, TypeInv, TypeOK, FcmTypeOK, QvTypeOK,
     QvKnown, Asking
<1> QED BY <1>1, <1>2, <1>3 DEF TypeInv, TypeOK

LEMMA RemoveTypes == ASSUME IInv, TypeInv, Remove PROVE TypeInv'
BY CountType
DEF Remove, TypeInv, TypeOK, FcmTypeOK, V1TypeOK, QvTypeOK, QvKnown, Asking, Stimulus

LEMMA UnloadTypes == ASSUME IInv, TypeInv, Unload PROVE TypeInv'
BY DEF Unload, TypeInv, TypeOK, FcmTypeOK, V1TypeOK, QvTypeOK, QvKnown, Asking

LEMMA CloudClosesTypes == ASSUME IInv, TypeInv, CloudCloses PROVE TypeInv'
BY DEF CloudCloses, HubStopped, TypeInv, TypeOK, FcmTypeOK, V1TypeOK, QvTypeOK, QvKnown, Asking

LEMMA RemovedTypes == ASSUME IInv, TypeInv, Removed PROVE TypeInv'
BY DEF Removed, TypeInv, TypeOK, FcmTypeOK, V1TypeOK, QvTypeOK, QvKnown, Asking

LEMMA CrashTypes == ASSUME IInv, TypeInv, Crash PROVE TypeInv'
BY CountType, BlankData
DEF Crash, Write, TypeInv, TypeOK, FcmTypeOK, V1TypeOK, QvTypeOK, QvKnown, Asking, Stimulus

LEMMA ReconfigureTypes ==
  ASSUME IInv, TypeInv, NEW o \in BOOLEAN, NEW c \in {{1}, {1, 2}}, NEW a \in BOOLEAN, Reconfigure(o, c, a)
  PROVE  TypeInv'
BY CountType
DEF Reconfigure, TypeInv, TypeOK, FcmTypeOK, V1TypeOK, QvTypeOK, QvKnown, Asking, Stimulus

LEMMA StoppedTypes == ASSUME IInv, TypeInv, NEW b \in BOOLEAN, Stopped(b) PROVE TypeInv'
<1>1. /\ save' \in Write /\ disk' \in Data /\ disk' \in {disk, save.data}
      /\ save' = save \/ save'.data.intents = {}
      /\ Counted(b) \/ UNCHANGED stimuli
  BY EndsWrite, BlankData DEF Stopped, TypeInv, TypeOK, FcmTypeOK
<1>2. stimuli' \in 0..MaxStimuli
  BY <1>1, CountType DEF TypeInv, TypeOK, FcmTypeOK
<1>3. /\ entry' \in {"setup", "removed", "removing"}
      /\ UNCHANGED <<run, clean, mine>> \/ (run' = "load" /\ clean' = TRUE /\ mine' = config)
  BY DEF Stopped
<1>4. lossy' \in BOOLEAN
  BY DEF Stopped, TypeInv, TypeOK, FcmTypeOK
<1>5. UNCHANGED <<vendor, after, option, config, channels, cloudVars, mem, closed, cancelled, tries,
                  subscribed, heard, earlier, rang, v1Vars, qvVars>>
  BY DEF Stopped
<1>6. UNCHANGED <<run, clean, mine>> => FcmTypeOK'
  BY <1>1, <1>2, <1>3, <1>4, <1>5 DEF TypeInv, TypeOK, FcmTypeOK
<1>7. run' = "load" /\ clean' = TRUE /\ mine' = config => FcmTypeOK'
  BY <1>1, <1>2, <1>3, <1>4, <1>5 DEF TypeInv, TypeOK, FcmTypeOK
<1>8. V1TypeOK' /\ QvTypeOK' /\ (vendor = "qv" => QvKnown)'
  BY <1>1, <1>3, <1>5 DEF TypeInv, TypeOK, V1TypeOK, QvTypeOK, QvKnown, Asking
<1> QED BY <1>3, <1>6, <1>7, <1>8 DEF TypeInv, TypeOK

LEMMA PressTypes ==
  ASSUME IInv, TypeInv, NEW p \in Calls, Press(p), UNCHANGED <<v1Vars, qvVars>>
  PROVE  TypeInv'
<1>1. queued' \in [Calls -> Nat] BY PressKeeps DEF IInv
<1> QED BY <1>1, CountType DEF Press, TypeInv, TypeOK, FcmTypeOK, V1TypeOK, QvTypeOK, QvKnown, Asking, Stimulus

LEMMA V1LoadTypes == ASSUME IInv, TypeInv, vendor = "v1", UNCHANGED qvVars, V1Load PROVE TypeInv'
BY MadeData, BeginsWrite
DEF V1Load, V1Go, V1Kept, V1Quiet, TypeInv, TypeOK, FcmTypeOK, V1TypeOK, QvTypeOK, QvKnown, Asking

LEMMA V1LoopTypes == ASSUME IInv, TypeInv, vendor = "v1", UNCHANGED qvVars, V1Loop PROVE TypeInv'
BY DEF V1Loop, V1Go, V1Kept, V1Quiet, TypeInv, TypeOK, FcmTypeOK, V1TypeOK, QvTypeOK, QvKnown,
   Asking

LEMMA V1ForgetTypes ==
  ASSUME IInv, TypeInv, vendor = "v1", UNCHANGED qvVars, V1Forget
  PROVE  TypeInv'
BY IntentsData, BeginsWrite
DEF V1Forget, V1Go, V1Kept, V1Quiet, TypeInv, TypeOK, FcmTypeOK, V1TypeOK, QvTypeOK, QvKnown, Asking

LEMMA V1RegisterTypes ==
  ASSUME IInv, TypeInv, vendor = "v1", UNCHANGED qvVars, V1Register
  PROVE  TypeInv'
BY EnrolledData
DEF V1Register, Enroll, V1Go, V1Kept, V1Quiet, TypeInv, TypeOK, FcmTypeOK, V1TypeOK, QvTypeOK,
    QvKnown, Asking

LEMMA V1CredentialsTypes ==
  ASSUME IInv, TypeInv, vendor = "v1", UNCHANGED qvVars, V1Credentials
  PROVE  TypeInv'
BY BeginsWrite
DEF V1Credentials, V1Go, V1Kept, V1Quiet, TypeInv, TypeOK, FcmTypeOK, V1TypeOK, QvTypeOK, QvKnown,
    Asking

LEMMA V1IntentTypes ==
  ASSUME IInv, TypeInv, vendor = "v1", UNCHANGED qvVars, V1Intent
  PROVE  TypeInv'
BY IntentsData, BeginsWrite, DataFields
DEF V1Intent, V1Go, V1Kept, V1Quiet, TypeInv, TypeOK, FcmTypeOK, V1TypeOK, QvTypeOK, QvKnown, Asking

LEMMA V1CheckTypes == ASSUME IInv, TypeInv, vendor = "v1", UNCHANGED qvVars, V1Check PROVE TypeInv'
<1>1. run' \in {"listen", "close"} /\ subscribed' \in BOOLEAN
  BY DEF V1Check, V1Go, TypeInv, TypeOK, FcmTypeOK
<1>2. UNCHANGED <<stimuli, vendor, entryVars, mine, closed, clean, earlier, tries, heard, rang, lossy,
                  cancelled, cloudVars, diskVars, mem, saver>>
  BY DEF V1Check, V1Kept, V1Quiet
<1> QED BY <1>1, <1>2 DEF TypeInv, TypeOK, FcmTypeOK, V1TypeOK, QvTypeOK, QvKnown

LEMMA V1SeenBeginsTypes ==
  ASSUME IInv, TypeInv, vendor = "v1", UNCHANGED qvVars, V1SeenBegins
  PROVE  TypeInv'
BY BeginsWrite
DEF V1SeenBegins, V1Go, V1Kept, V1Quiet, TypeInv, TypeOK, FcmTypeOK, V1TypeOK, QvTypeOK, QvKnown,
    Asking

LEMMA V1FailsTypes == ASSUME IInv, TypeInv, vendor = "v1", UNCHANGED qvVars, V1Fails PROVE TypeInv'
BY CountType
DEF V1Fails, ConnectionLost, V1Go, V1Kept, V1Quiet, TypeInv, TypeOK, FcmTypeOK, V1TypeOK,
    QvTypeOK, QvKnown, Asking, Stimulus

LEMMA V1ClosesTypes ==
  ASSUME IInv, TypeInv, vendor = "v1", UNCHANGED qvVars, V1Closes
  PROVE  TypeInv'
BY DEF V1Closes, V1Go, V1Kept, V1Quiet, TypeInv, TypeOK, FcmTypeOK, V1TypeOK, QvTypeOK, QvKnown,
   Asking

LEMMA V1CancelledTypes ==
  ASSUME IInv, TypeInv, vendor = "v1", UNCHANGED qvVars, V1Cancelled
  PROVE  TypeInv'
BY DEF V1Cancelled, V1Go, V1Kept, V1Quiet, TypeInv, TypeOK, FcmTypeOK, V1TypeOK, QvTypeOK,
   QvKnown, Asking

LEMMA V1ClosedTypes ==
  ASSUME IInv, TypeInv, vendor = "v1", UNCHANGED qvVars, V1Closed
  PROVE  TypeInv'
BY DEF V1Closed, V1Go, V1Kept, V1Quiet, TypeInv, TypeOK, FcmTypeOK, V1TypeOK, QvTypeOK, QvKnown,
   Asking

LEMMA V1LastBeginsTypes ==
  ASSUME IInv, TypeInv, vendor = "v1", UNCHANGED qvVars, V1LastBegins
  PROVE  TypeInv'
BY BeginsWrite
DEF V1LastBegins, V1Go, V1Kept, V1Quiet, TypeInv, TypeOK, FcmTypeOK, V1TypeOK, QvTypeOK, QvKnown,
    Asking

LEMMA V1UnsubscribeTypes ==
  ASSUME IInv, TypeInv, vendor = "v1", UNCHANGED qvVars, NEW a \in BOOLEAN, NEW b \in BOOLEAN, V1Unsubscribe(a, b)
  PROVE  TypeInv'
<1>1. run' \in {"off", "unsave", "close", "lastsave"} /\ subscribed' \in BOOLEAN
  BY DEF V1Unsubscribe, V1Go
<1>2. remote' \in SUBSET Nat
  BY DEF V1Unsubscribe, TypeInv, TypeOK, FcmTypeOK
<1>3. Counted(a /\ b) \/ UNCHANGED stimuli
  BY DEF V1Unsubscribe
<1>4. stimuli' \in 0..MaxStimuli
  BY <1>3, CountType DEF TypeInv, TypeOK, FcmTypeOK
<1>5. UNCHANGED <<vendor, entryVars, mine, closed, clean, earlier, tries, heard, rang, lossy,
                  cancelled, issued, target, pressed, queued, diskVars, mem, saver>>
  BY DEF V1Unsubscribe, V1Kept, V1Quiet
<1>6. FcmTypeOK'
  BY <1>1, <1>2, <1>4, <1>5 DEF TypeInv, TypeOK, FcmTypeOK
<1> QED BY <1>5, <1>6 DEF TypeInv, TypeOK, V1TypeOK, QvTypeOK

LEMMA V1SubscribeTypes ==
  ASSUME IInv, TypeInv, vendor = "v1", UNCHANGED qvVars, NEW a \in BOOLEAN, NEW b \in BOOLEAN, V1Subscribe(a, b)
  PROVE  TypeInv'
<1>1. run' \in {"oncheck", "close"}
  BY DEF V1Subscribe, V1Go
<1>2. remote' \in SUBSET Nat
  BY DataFields DEF V1Subscribe, TypeInv, TypeOK, FcmTypeOK
<1>3. stimuli' \in 0..MaxStimuli
  BY CountType DEF V1Subscribe, TypeInv, TypeOK, FcmTypeOK
<1>4. UNCHANGED <<vendor, entryVars, mine, closed, clean, earlier, tries, heard, rang, lossy,
                  cancelled, subscribed, issued, target, pressed, queued, diskVars, mem, saver>>
  BY DEF V1Subscribe, V1Kept, V1Quiet
<1> QED BY <1>1, <1>2, <1>3, <1>4 DEF TypeInv, TypeOK, FcmTypeOK, V1TypeOK, QvTypeOK, QvKnown

LEMMA V1SeenEndsTypes ==
  ASSUME IInv, TypeInv, vendor = "v1", UNCHANGED qvVars, NEW b \in BOOLEAN, V1SeenEnds(b)
  PROVE  TypeInv'
BY CountType, EndsWrite, BlankData
DEF V1SeenEnds, V1Go, V1Kept, V1Quiet, TypeInv, TypeOK, FcmTypeOK, V1TypeOK, QvTypeOK, QvKnown,
    Asking, Stimulus

LEMMA V1SavedTypes ==
  ASSUME IInv, TypeInv, vendor = "v1", UNCHANGED qvVars, NEW b \in BOOLEAN, V1Saved(b)
  PROVE  TypeInv'
<1>1. /\ run' \in {"off", "last", "loop", "register", "close", "intent", "subscribe"}
      /\ cancelled' \in BOOLEAN
  <2>1. run \in {"storing", "unsave", "credentials", "intent", "lastsave"}
    BY DEF V1Saved, IInv
  <2>2. cancelled' \in BOOLEAN
    BY DEF V1Saved, TypeInv, TypeOK, FcmTypeOK
  <2> QED BY <2>1, <2>2 DEF V1Saved, V1Go
<1>2. save' \in Write /\ disk' \in Data /\ save.data \in Data
  BY EndsWrite, BlankData DEF V1Saved, TypeInv, TypeOK, FcmTypeOK
<1>3. mem' \in Data
  BY <1>2, IntentsData, DataFields DEF V1Saved, TypeInv, TypeOK, FcmTypeOK
<1>4. stimuli' \in 0..MaxStimuli
  BY CountType DEF V1Saved, TypeInv, TypeOK, FcmTypeOK
<1>5. UNCHANGED <<vendor, entryVars, mine, closed, clean, earlier, tries, heard, rang, lossy,
                  subscribed, cloudVars, saver>>
  BY DEF V1Saved, V1Kept, V1Quiet
<1> QED BY <1>1, <1>2, <1>3, <1>4, <1>5 DEF TypeInv, TypeOK, FcmTypeOK, V1TypeOK, QvTypeOK, QvKnown

LEMMA V1MessageTypes ==
  ASSUME IInv, TypeInv, vendor = "v1", UNCHANGED qvVars, NEW p \in Calls, NEW k, NEW d, V1Message(p, k, d)
  PROVE  TypeInv'
BY SeenData
DEF V1Message, Acked, Ring, V1Go, V1Kept, V1Quiet, TypeInv, TypeOK, FcmTypeOK, V1TypeOK, QvTypeOK,
    QvKnown, Asking

LEMMA V1IgnoredTypes ==
  ASSUME IInv, TypeInv, vendor = "v1", UNCHANGED qvVars, NEW p \in Calls, NEW k, NEW d, V1Ignored(p, k, d)
  PROVE  TypeInv'
BY CountType
DEF V1Ignored, Acked, V1Go, V1Kept, V1Quiet, TypeInv, TypeOK, FcmTypeOK, V1TypeOK, QvTypeOK,
    QvKnown, Asking, Stimulus

LEMMA QvLoadTypes == ASSUME IInv, TypeInv, vendor = "qv", UNCHANGED v1Vars, QvLoad PROVE TypeInv'
<1> DEFINE r == [disk EXCEPT !.made = TRUE]
<1>1. disk \in Data /\ r \in Data /\ r.intents = disk.intents
  BY MadeData, Made DEF TypeInv, TypeOK, FcmTypeOK, Data
<1>2. run' \in {"authorize", "drop", "close", "storing"}
  BY DEF QvLoad, Go
<1>3. mem' \in {disk, r} /\ (UNCHANGED save \/ SaveBegins("run", r))
  BY DEF QvLoad
<1>4. UNCHANGED <<stimuli, vendor, entryVars, mine, closed, cancelled, clean, earlier, lossy, tries, subscribed,
                  heard, rang, cloudVars, disk, qvVars>>
  BY DEF QvLoad, Kept, Quiet
<1> HIDE DEF r
<1>5. /\ mem' \in Data /\ mem'.intents = disk.intents /\ save' \in Write
      /\ save' = save \/ save'.data.intents = disk.intents
  BY <1>1, <1>3, BeginsWrite DEF TypeInv, TypeOK, FcmTypeOK
<1> QED BY <1>2, <1>4, <1>5 DEF TypeInv, TypeOK, FcmTypeOK, V1TypeOK, QvTypeOK, QvKnown, Asking

LEMMA QvLoopTypes == ASSUME IInv, TypeInv, vendor = "qv", UNCHANGED v1Vars, QvLoop PROVE TypeInv'
BY DEF QvLoop, Go, Kept, Quiet, TypeInv, TypeOK, FcmTypeOK, V1TypeOK, QvTypeOK, QvKnown, Asking

LEMMA QvRegisterTypes ==
  ASSUME IInv, TypeInv, vendor = "qv", UNCHANGED v1Vars, QvRegister
  PROVE  TypeInv'
BY EnrolledData, BeginsWrite
DEF QvRegister, Enroll, Go, Kept, Quiet, TypeInv, TypeOK, FcmTypeOK, V1TypeOK, QvTypeOK, QvKnown,
    Asking

LEMMA QvOffCheckTypes ==
  ASSUME IInv, TypeInv, vendor = "qv", UNCHANGED v1Vars, QvOffCheck
  PROVE  TypeInv'
<1> DEFINE S == mem.intents \ {goal}
           r == [mem EXCEPT !.intents = S]
<1>1. S \subseteq Grants /\ S \subseteq Nat /\ mem \in Data
  BY DataFields DEF TypeInv, TypeOK, FcmTypeOK, QvKnown
<1>2. \/ run' = "close" /\ UNCHANGED save
      \/ run' = "clear" /\ SaveBegins("run", r)
  BY DEF QvOffCheck, Go
<1>3. run = "offcheck"
      /\ UNCHANGED <<stimuli, vendor, entryVars, mine, closed, cancelled, clean, earlier, lossy, tries, subscribed,
                     heard, rang, cloudVars, disk, mem, qvVars>>
  BY DEF QvOffCheck, Kept, Quiet
<1> HIDE DEF S
<1>4. r \in Data /\ r.intents = S
  BY <1>1, IntentsData
<1> HIDE DEF r
<1>5. save' \in Write /\ save'.data.intents \subseteq Grants /\ run' \in {"close", "clear"}
  BY <1>1, <1>2, <1>4, BeginsWrite DEF TypeInv, TypeOK, FcmTypeOK, QvKnown
<1> QED BY <1>3, <1>5 DEF TypeInv, TypeOK, FcmTypeOK, V1TypeOK, QvTypeOK, QvKnown, Asking

LEMMA QvIntentTypes ==
  ASSUME IInv, TypeInv, vendor = "qv", UNCHANGED v1Vars, QvIntent
  PROVE  TypeInv'
<1> DEFINE S == mem.intents \cup {goal}
           r == [mem EXCEPT !.intents = S]
<1>1. S \subseteq Grants /\ S \subseteq Nat /\ mem \in Data
  BY DataFields DEF TypeInv, TypeOK, FcmTypeOK, QvTypeOK, QvKnown, Grants
<1>2. run' = "storeintent" /\ SaveBegins("run", r)
  BY DEF QvIntent, Go
<1>3. run = "intent"
      /\ UNCHANGED <<stimuli, vendor, entryVars, mine, closed, cancelled, clean, earlier, lossy, tries, subscribed,
                     heard, rang, cloudVars, disk, mem, qvVars>>
  BY DEF QvIntent, Kept, Quiet
<1> HIDE DEF S
<1>4. r \in Data /\ r.intents = S
  BY <1>1, IntentsData
<1> HIDE DEF r
<1>5. save' \in Write /\ save'.data.intents \subseteq Grants
  BY <1>1, <1>2, <1>4, BeginsWrite
<1> QED BY <1>2, <1>3, <1>5 DEF TypeInv, TypeOK, FcmTypeOK, V1TypeOK, QvTypeOK, QvKnown, Asking

LEMMA QvOnCheckTypes ==
  ASSUME IInv, TypeInv, vendor = "qv", UNCHANGED v1Vars, QvOnCheck
  PROVE  TypeInv'
<1>1. goal' \in Grants
  <2>1. CASE goal' = goal
    BY <2>1 DEF TypeInv, TypeOK, QvTypeOK
  <2>2. CASE goal' # goal
    <3>1. Later # {} /\ goal' = First(Later)
      BY <2>2 DEF QvOnCheck
    <3> QED BY <3>1, FirstGrant, GrantsOnly DEF Later
  <2> QED BY <2>1, <2>2
<1>2. run = "oncheck" /\ run' \in {"close", "intent", "listen"}
  BY DEF QvOnCheck, Go
<1>3. subscribed' \in BOOLEAN
  BY DEF QvOnCheck, TypeInv, TypeOK, FcmTypeOK
<1>4. UNCHANGED <<stimuli, vendor, entryVars, mine, closed, cancelled, clean, earlier, lossy, tries,
                  heard, rang, cloudVars, diskVars, mem, scope, allowed, call>>
  BY DEF QvOnCheck, Kept
<1> QED BY <1>1, <1>2, <1>3, <1>4 DEF TypeInv, TypeOK, FcmTypeOK, V1TypeOK, QvTypeOK, QvKnown, Asking

LEMMA QvClosesTypes ==
  ASSUME IInv, TypeInv, vendor = "qv", UNCHANGED v1Vars, QvCloses
  PROVE  TypeInv'
<1>1. /\ run' \in {"off", "loop"} /\ subscribed' \in BOOLEAN
      /\ heard' = {} /\ allowed' = {}
  BY DEF QvCloses, Go, Disconnects
<1>2. UNCHANGED <<stimuli, vendor, entryVars, mine, closed, cancelled, clean, earlier, lossy, tries,
                  rang, cloudVars, diskVars, mem, scope, goal, call>>
  BY DEF QvCloses, Kept
<1> QED BY <1>1, <1>2 DEF TypeInv, TypeOK, FcmTypeOK, V1TypeOK, QvTypeOK, QvKnown, Asking

LEMMA QvCancelledTypes ==
  ASSUME IInv, TypeInv, vendor = "qv", UNCHANGED v1Vars, QvCancelled
  PROVE  TypeInv'
<1>1. /\ run' \in {"off"} /\ subscribed' \in BOOLEAN
      /\ heard' = {} /\ allowed' = {}
  BY DEF QvCancelled, Go, Disconnects
<1>2. UNCHANGED <<stimuli, vendor, entryVars, mine, closed, cancelled, clean, earlier, lossy, tries,
                  rang, cloudVars, diskVars, mem, scope, goal, call>>
  BY DEF QvCancelled, Kept
<1> QED BY <1>1, <1>2 DEF TypeInv, TypeOK, FcmTypeOK, V1TypeOK, QvTypeOK, QvKnown, Asking

LEMMA QvDropTypes == ASSUME IInv, TypeInv, vendor = "qv", UNCHANGED v1Vars, QvDrop PROVE TypeInv'
BY BlankData
DEF QvDrop, Go, Kept, Quiet, TypeInv, TypeOK, FcmTypeOK, V1TypeOK, QvTypeOK, QvKnown, Asking

LEMMA QvVendorTypes ==
  ASSUME IInv, TypeInv, vendor = "qv", UNCHANGED v1Vars, NEW a \in BOOLEAN, NEW b \in BOOLEAN, QvVendor(a, b)
  PROVE  TypeInv'
BY CountType, DataFields
DEF QvVendor, Go, Kept, Quiet, TypeInv, TypeOK, FcmTypeOK, V1TypeOK, QvTypeOK, QvKnown, Asking,
    Stimulus

LEMMA QvTurnOffTypes ==
  ASSUME IInv, TypeInv, vendor = "qv", UNCHANGED v1Vars, NEW a \in BOOLEAN, NEW b \in BOOLEAN, QvTurnOff(a, b)
  PROVE  TypeInv'
<1>1. run = "turnoff" /\ run' \in {"drop", "intent", "offcheck", "close"}
  BY DEF QvTurnOff, Go
<1>2. goal' \in Grants
  <2>1. CASE mem.intents \subseteq Targets
    <3>1. ~clean => Targets # {}
      BY <1>1 DEF TypeInv, QvKnown, Asking, Targets, TypeOK, QvTypeOK
    <3>2. goal' = (IF clean THEN 0 ELSE First(Targets))
      BY <2>1 DEF QvTurnOff
    <3> QED BY <3>1, <3>2, FirstGrant, GrantsOnly DEF Grants
  <2>2. CASE ~(mem.intents \subseteq Targets)
    <3>1. goal' = First(mem.intents \ Targets) /\ mem.intents \ Targets # {}
      BY <2>2 DEF QvTurnOff
    <3>2. mem.intents \ Targets \subseteq Grants
      BY DEF TypeInv, QvKnown
    <3> QED BY <3>1, <3>2, FirstGrant
  <2> QED BY <2>1, <2>2
<1>3. remote' \subseteq remote /\ (Counted(a /\ b) \/ UNCHANGED stimuli)
  BY DEF QvTurnOff
<1>4. stimuli' \in 0..MaxStimuli
  BY <1>3, CountType DEF TypeInv, TypeOK, FcmTypeOK
<1>5. UNCHANGED <<vendor, entryVars, mine, closed, cancelled, clean, earlier, lossy, tries, subscribed,
                  heard, rang, issued, target, pressed, queued, diskVars, mem, scope, allowed, call>>
  BY DEF QvTurnOff, Kept, Quiet
<1> QED BY <1>1, <1>2, <1>3, <1>4, <1>5 DEF TypeInv, TypeOK, FcmTypeOK, V1TypeOK, QvTypeOK, QvKnown, Asking

LEMMA QvSubscribeTypes ==
  ASSUME IInv, TypeInv, vendor = "qv", UNCHANGED v1Vars, NEW a \in BOOLEAN, NEW b \in BOOLEAN, QvSubscribe(a, b)
  PROVE  TypeInv'
<1>1. run = "subscribe" /\ run' \in {"oncheck", "close"} /\ Counted(a /\ b)
  BY DEF QvSubscribe, Go
<1>2. remote' \subseteq Grants /\ remote' \in SUBSET Nat
  BY DEF QvSubscribe, TypeInv, TypeOK, FcmTypeOK, QvTypeOK, QvKnown, Grants
<1>3. stimuli' \in 0..MaxStimuli
  BY <1>1, CountType DEF TypeInv, TypeOK, FcmTypeOK
<1>4. UNCHANGED <<vendor, entryVars, mine, closed, cancelled, clean, earlier, lossy, tries, subscribed,
                  heard, rang, issued, target, pressed, queued, diskVars, mem, qvVars>>
  BY DEF QvSubscribe, Kept, Quiet
<1> QED BY <1>1, <1>2, <1>3, <1>4 DEF TypeInv, TypeOK, FcmTypeOK, V1TypeOK, QvTypeOK, QvKnown, Asking

LEMMA QvHandledTypes ==
  ASSUME IInv, TypeInv, vendor = "qv", UNCHANGED v1Vars, NEW a \in BOOLEAN, NEW b \in BOOLEAN, QvHandled(a, b)
  PROVE  TypeInv'
<1>1. run' = "listen" /\ call' = {} /\ Counted(a /\ ~b)
  BY DEF QvHandled, Go
<1>2. queued' \in [Calls -> Nat] /\ rang' \in [Calls -> Nat]
  BY QvHandledKeeps DEF IInv
<1>3. /\ save' = NoSave /\ disk' \in Data /\ disk' \in {disk, save.data}
  BY EndsWrite DEF QvHandled, TypeInv, TypeOK, FcmTypeOK
<1>4. save' \in Write /\ save'.data.intents = {}
  BY <1>3, BlankData
<1>5. stimuli' \in 0..MaxStimuli
  BY <1>1, CountType DEF TypeInv, TypeOK, FcmTypeOK
<1>6. UNCHANGED <<vendor, entryVars, mine, closed, cancelled, clean, earlier, lossy, tries, subscribed,
                  heard, issued, target, remote, pressed, mem, scope, allowed, goal>>
  BY DEF QvHandled, Kept
<1> QED BY <1>1, <1>2, <1>3, <1>4, <1>5, <1>6 DEF TypeInv, TypeOK, FcmTypeOK, V1TypeOK, QvTypeOK, QvKnown, Asking

LEMMA QvSavedTypes ==
  ASSUME IInv, TypeInv, vendor = "qv", UNCHANGED v1Vars, NEW b \in BOOLEAN, QvSaved(b)
  PROVE  TypeInv'
BY CountType, EndsWrite, BlankData
DEF QvSaved, IInv, Go, Kept, Quiet, TypeInv, TypeOK, FcmTypeOK, V1TypeOK, QvTypeOK, QvKnown,
    Asking, Stimulus

LEMMA QvFailsTypes ==
  ASSUME IInv, TypeInv, vendor = "qv", UNCHANGED v1Vars, NEW b \in BOOLEAN, QvFails(b)
  PROVE  TypeInv'
BY CountType
DEF QvFails, ConnectionLost, Steps, Go, Kept, Quiet, TypeInv, TypeOK, FcmTypeOK, V1TypeOK,
    QvTypeOK, QvKnown, Asking, Stimulus

LEMMA QvAuthorizeTypes ==
  ASSUME IInv, TypeInv, vendor = "qv", UNCHANGED v1Vars, NEW s \in {"device", "channel"}, NEW o, QvAuthorize(s, o)
  PROVE  TypeInv'
BY DEF QvAuthorize, Authorized, Go, Kept, Quiet, TypeInv, TypeOK, FcmTypeOK, V1TypeOK, QvTypeOK,
   QvKnown, Asking

LEMMA QvMessageTypes ==
  ASSUME IInv, TypeInv, vendor = "qv", UNCHANGED v1Vars, NEW p \in Calls, NEW d, QvMessage(p, d)
  PROVE  TypeInv'
<1> DEFINE r == [mem EXCEPT !.seen = @ \cup {p}]
<1>1. run' = "handle" /\ heard' = heard \cup {p} /\ call' = {p} /\ mem' = r /\ SaveBegins("run", r)
  BY DEF QvMessage, Go
<1>2. UNCHANGED <<vendor, entryVars, mine, closed, cancelled, clean, earlier, lossy, stimuli, tries,
                  subscribed, rang, cloudVars, disk, scope, allowed, goal>>
  BY DEF QvMessage, Kept
<1>3. r \in Data /\ r.intents = mem.intents
  BY SeenData DEF TypeInv, TypeOK, FcmTypeOK
<1> HIDE DEF r
<1>4. save' \in Write /\ save'.data = r
  BY <1>1, <1>3, BeginsWrite
<1> QED BY <1>1, <1>2, <1>3, <1>4 DEF TypeInv, TypeOK, FcmTypeOK, V1TypeOK, QvTypeOK, QvKnown, Asking

LEMMA QvIgnoredTypes ==
  ASSUME IInv, TypeInv, vendor = "qv", UNCHANGED v1Vars, NEW p \in Calls, NEW d, QvIgnored(p, d)
  PROVE  TypeInv'
BY CountType
DEF QvIgnored, Acked, Go, Kept, Quiet, TypeInv, TypeOK, FcmTypeOK, V1TypeOK, QvTypeOK, QvKnown,
    Asking, Stimulus

LEMMA TypesInit == ASSUME Init PROVE TypeInv
<1> DEFINE old == [made |-> TRUE, token |-> 1, web |-> TRUE, intents |-> {1}, seen |-> {}]
<1>1. old \in Data /\ old.intents = {1} /\ old.token = 1
  BY DEF Data
<1>2. disk \in {Blank, old} /\ (disk = Blank \/ vendor = "qv") /\ vendor \in {"v1", "qv"}
  BY DEF Init
<1>3. /\ issued = disk.token /\ target = disk.token /\ remote = disk.intents
      /\ mem = Blank /\ save = NoSave /\ stimuli = 0 /\ run = "off" /\ saver = "idle"
  BY DEF Init, V1Init
<1> HIDE DEF old
<1>4. /\ disk \in Data /\ mem \in Data /\ save \in Write /\ disk.token \in Nat
      /\ disk.intents \subseteq {1} /\ mem.intents = {} /\ save.data.intents = {}
  BY <1>1, <1>2, <1>3, BlankData, DataFields
<1>5. QvTypeOK
  BY DEF Init, QvInit, QvTypeOK, Grants
<1>6. queued \in [Calls -> Nat] /\ rang \in [Calls -> Nat]
  BY DEF Init
<1>7. /\ entry = "setup" /\ after = "setup" /\ option \in BOOLEAN /\ config \in Nat
      /\ channels = {1, 2} /\ closed \in BOOLEAN /\ mine \in Nat /\ cancelled \in BOOLEAN
      /\ clean \in BOOLEAN /\ tries \in Nat /\ subscribed \in BOOLEAN /\ lossy \in BOOLEAN
  BY DEF Init
<1>8. pressed = {} /\ heard = {} /\ earlier = {} /\ 0 \in 0..MaxStimuli
  BY FcmAssumption DEF Init
<1>9. remote \in SUBSET Nat /\ issued \in Nat /\ target \in Nat
  BY <1>3, <1>4
<1>10. FcmTypeOK
  BY <1>2, <1>3, <1>4, <1>6, <1>7, <1>8, <1>9 DEF FcmTypeOK
<1> QED BY <1>3, <1>4, <1>5, <1>10 DEF TypeInv, TypeOK, V1TypeOK, QvKnown, Asking, Grants

LEMMA TypesKept == ASSUME IInv, TypeInv, [Next]_vars PROVE TypeInv'
<1>1. CASE Life
  BY <1>1, SetupTypes, RemoveTypes, UnloadTypes, CloudClosesTypes, RemovedTypes, CrashTypes,
     ReconfigureTypes, StoppedTypes, PressTypes
  DEF Life
<1>2. CASE vendor = "v1" /\ V1Step /\ UNCHANGED qvVars
  BY <1>2, V1LoadTypes, V1LoopTypes, V1ForgetTypes, V1RegisterTypes, V1CredentialsTypes, V1IntentTypes,
     V1CheckTypes, V1SeenBeginsTypes, V1FailsTypes, V1ClosesTypes, V1CancelledTypes, V1ClosedTypes,
     V1LastBeginsTypes, V1UnsubscribeTypes, V1SubscribeTypes, V1MessageTypes, V1IgnoredTypes,
     V1SeenEndsTypes, V1SavedTypes
  DEF V1Step
<1>3. CASE vendor = "qv" /\ QvStep /\ UNCHANGED v1Vars
  BY <1>3, QvLoadTypes, QvLoopTypes, QvRegisterTypes, QvOffCheckTypes, QvIntentTypes, QvOnCheckTypes,
     QvClosesTypes, QvCancelledTypes, QvDropTypes, QvAuthorizeTypes, QvVendorTypes, QvTurnOffTypes,
     QvSubscribeTypes, QvHandledTypes, QvMessageTypes, QvIgnoredTypes, QvSavedTypes, QvFailsTypes
  DEF QvStep
<1>4. CASE UNCHANGED vars
  BY <1>4 DEF vars, TypeInv, TypeOK, FcmTypeOK, V1TypeOK, QvTypeOK, QvKnown, Asking
<1> QED BY <1>1, <1>2, <1>3, <1>4 DEF Next

\* Types of all variables, and that whatever the QV vendor is asked about is a
\* subscription that exists (_subscribe, _disable_channel, _disable_device).
THEOREM TypeCorrect == Spec => []TypeOK
<1>1. Spec => []TypeInv
  <2>1. IInv /\ TypeInv /\ [Next]_vars => TypeInv'
    BY TypesKept
  <2> QED BY <2>1, TypesInit, IInvInvariant, PTL DEF Spec
<1>2. TypeInv => TypeOK
  BY DEF TypeInv
<1> QED BY <1>1, <1>2, PTL

=============================================================================
