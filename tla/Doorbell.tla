------------------------------ MODULE Doorbell ------------------------------
(***************************************************************************)
(* A press of a Connect 2 doorbell, from the alarm the device repeats to   *)
(* the photo that is shown and stored: the listener thread (ring.py), the  *)
(* ring bus of the hub (hub.py) with the event entity (event.py), the ring *)
(* photo (ring_image.py), manual snapshots (manual_snapshot.py) on the     *)
(* shared media lease (snapshot.py), and the unload of the entry           *)
(* (__init__.py) over the store and library of PhotoStore.                 *)
(*                                                                         *)
(* The listener is a thread that reports to the loop by call_soon_         *)
(* threadsafe (`calls`); everything else is the event loop and executor    *)
(* jobs.  The media session is the lease service of MediaHub: while a      *)
(* capture holds a lease a new picture may arrive, or the capture fails.   *)
(***************************************************************************)
EXTENDS PhotoStore, Sequences

CONSTANTS
  Presses,      \* presses of the button, each once
  SecondPanel,  \* those whose channel is not the main panel's
  MaxStimuli,   \* bound: presses, snapshots, switches, requests to delete, unloads
  MaxCalls      \* bound: callbacks waiting for the loop

ASSUME DoorbellAssumption ==
  /\ SecondPanel \subseteq Presses
  /\ MaxStimuli \in Nat /\ MaxCalls \in Nat \ {0}

VARIABLES
  stimuli,      \* how many of them there were
  \* RingListener
  pressed,      \* alarms the device reports, perhaps again and again
  listener,     \* where its thread is
  lisClosed,    \* RingListener.closed
  seen,         \* alarms it has accepted
  calls,        \* callbacks posted to the loop
  \* the hub
  connected,    \* ring_connected
  rings,        \* ring_count
  unload,       \* how far the unload of the entry is
  \* RingImageCapture
  enabled,      \* its switch
  pending,      \* sequence of the ring to photograph next, 0 for none
  sequence,     \* of the newest ring it was told of
  current,      \* sequence of the ring being photographed
  stale,        \* the revision moved on since that ring asked for its photo
  photo,        \* the published photo: its ring, and how many rings came before the picture
  foreign,      \* sequences of rings of the second panel
  \* captures
  step,         \* where each capture is
  fresh,        \* a picture arrived since it asked for one
  image,        \* the picture of each capture: how many rings came before it
  toMedia,      \* save_to_media of the manual snapshot
  dropped       \* the caller of the manual snapshot went away

lisVars == <<pressed, listener, lisClosed, seen, calls>>
hubVars == <<connected, rings, unload>>
photoVars == <<enabled, pending, sequence, current, stale, photo, foreign>>
stepVars == <<step, fresh, image, toMedia, dropped>>
vars == <<stimuli, lisVars, hubVars, photoVars, stepVars, storeVars>>

-----------------------------------------------------------------------------
NoPhoto == [ring |-> 0, taken |-> 0]
Stopped == unload \in {"stopping", "ring", "manual", "unloaded"}
RingClosed == unload \in {"ring", "manual", "unloaded"}
ManualClosed == unload \in {"manual", "unloaded"}

TypeOK ==
  /\ StoreTypeOK
  /\ stimuli \in 0..MaxStimuli
  /\ pressed \subseteq Presses /\ seen \subseteq Presses
  /\ listener \in {"off", "connecting", "listening", "backoff", "dead"}
  /\ lisClosed \in BOOLEAN /\ connected \in BOOLEAN
  /\ calls \in Seq({TRUE, FALSE} \X {"state"} \cup Presses \X {"ring"})
  /\ rings \in Nat
  /\ unload \in {"loaded", "detach", "stopping", "ring", "manual", "unloaded"}
  /\ enabled \in BOOLEAN /\ stale \in BOOLEAN
  /\ pending \in Nat /\ sequence \in Nat /\ current \in Nat
  /\ photo \in [ring : Nat, taken : Nat] /\ foreign \subseteq Nat
  /\ step \in [Captures -> {"idle", "delay", "lease", "image", "release", "validate", "valid",
                            "invalid", "save", "discard"}]
  /\ fresh \in [Captures -> BOOLEAN] /\ image \in [Captures -> Nat]
  /\ toMedia \in BOOLEAN /\ dropped \in BOOLEAN

DoorbellInit ==
  /\ pressed = {} /\ listener = "off" /\ lisClosed = FALSE /\ seen = {} /\ calls = <<>>
  /\ connected = FALSE /\ rings = 0 /\ unload = "loaded"
  /\ enabled = TRUE /\ pending = 0 /\ sequence = 0 /\ current = 0 /\ stale = FALSE
  /\ photo = NoPhoto /\ foreign = {}
  /\ step = [c \in Captures |-> "idle"] /\ fresh = [c \in Captures |-> FALSE]
  /\ image = [c \in Captures |-> 0] /\ toMedia = FALSE /\ dropped = FALSE

Init == stimuli = 0 /\ DoorbellInit /\ StoreInit

\* One more thing happens from outside.
Stimulus == stimuli < MaxStimuli /\ stimuli' = stimuli + 1

-----------------------------------------------------------------------------
(* The listener thread (RingListener._worker)                              *)

Room == Len(calls) < MaxCalls
Post(call) == calls' = Append(calls, call)

Press(p) ==
  /\ Stimulus /\ p \notin pressed
  /\ pressed' = pressed \cup {p}
  /\ UNCHANGED <<listener, lisClosed, seen, calls, hubVars, photoVars, stepVars, storeVars>>

\* A new Session, unless the listener was closed meanwhile
ListenerOpens ==
  /\ listener \in {"off", "backoff"} /\ unload = "loaded"
  /\ listener' = (IF lisClosed THEN "dead" ELSE "connecting")
  /\ UNCHANGED <<stimuli, pressed, lisClosed, seen, calls, hubVars, photoVars, stepVars, storeVars>>

ListenerConnected ==
  /\ listener = "connecting" /\ ~lisClosed /\ Room
  /\ listener' = "listening"
  /\ Post(<<TRUE, "state">>)
  /\ UNCHANGED <<stimuli, pressed, lisClosed, seen, hubVars, photoVars, stepVars, storeVars>>

\* Refused login, or another device answered: no further attempt
ListenerRefused ==
  /\ Stimulus /\ listener = "connecting" /\ ~lisClosed /\ Room
  /\ listener' = "dead"
  /\ Post(<<FALSE, "state">>)
  /\ UNCHANGED <<pressed, lisClosed, seen, hubVars, photoVars, stepVars, storeVars>>

\* Socket errors, a missing keepalive answer; the session is closed in `finally`
ListenerFails ==
  /\ Stimulus /\ listener \in {"connecting", "listening"} /\ ~lisClosed /\ Room
  /\ listener' = "backoff"
  /\ Post(<<FALSE, "state">>)
  /\ UNCHANGED <<pressed, lisClosed, seen, hubVars, photoVars, stepVars, storeVars>>

\* close() ends the thread wherever it is; errors are then its own
ListenerEnds ==
  /\ lisClosed /\ listener \in {"off", "connecting", "listening", "backoff"}
  /\ listener' = "dead"
  /\ UNCHANGED <<stimuli, pressed, lisClosed, seen, calls, hubVars, photoVars, stepVars, storeVars>>

\* decode_alarm_observations: what the device reports decodes to the presses, each
\* perhaps again and again; anything else it sends to nothing.
Observed == pressed

\* _accept: an alarm of a ring type (7, 14, 19, 47) with a valid message; other
\* types, undecodable and media TLVs change nothing.
Accept(p) ==
  /\ listener = "listening" /\ p \in Observed \ seen /\ Room
  /\ seen' = seen \cup {p}
  /\ Post(<<p, "ring">>)
  /\ UNCHANGED <<stimuli, pressed, listener, lisClosed, hubVars, photoVars, stepVars, storeVars>>

-----------------------------------------------------------------------------
(* The loop: what the listener posted                                      *)

\* RingImageCapture._invalidate: what is pending or being saved is not wanted
Invalidate ==
  /\ stale' = TRUE
  /\ cancelled' = [cancelled EXCEPT !["ring"] = @ \/ step["ring"] = "save"]

\* request(): the newest ring supersedes; a running task finds it pending
Request(s) ==
  IF enabled
    THEN /\ Invalidate
         /\ sequence' = s /\ pending' = s
    ELSE UNCHANGED <<stale, cancelled, sequence, pending>>

\* reject_unsupported_channel(): supersedes as well, without a photo
Reject(s) ==
  IF enabled
    THEN /\ Invalidate
         /\ sequence' = s /\ pending' = 0
    ELSE UNCHANGED <<stale, cancelled, sequence, pending>>

\* _deliver and WelcomeEyeHub._ring, with the bus listener of the event entity
Ring(p) ==
  /\ rings' = rings + 1
  /\ IF p \in SecondPanel
       THEN Reject(rings + 1) /\ foreign' = foreign \cup {rings + 1}
       ELSE Request(rings + 1) /\ UNCHANGED foreign

LoopRuns ==
  /\ calls # <<>>
  /\ calls' = Tail(calls)
  /\ LET call == Head(calls) IN
     IF lisClosed \/ Stopped
       THEN UNCHANGED <<connected, rings, foreign, stale, cancelled, sequence, pending>>
       ELSE \/ /\ call[2] = "ring"
               /\ Ring(call[1])
               /\ UNCHANGED connected
            \/ /\ call[2] = "state"      \* _ring_state
               /\ connected' = call[1]
               /\ UNCHANGED <<rings, foreign, stale, cancelled, sequence, pending>>
  /\ UNCHANGED <<stimuli, pressed, listener, lisClosed, seen, unload, enabled, current, photo, stepVars, save, saved, diskVars, link, libVars, stray, stored, now, published, approved, leftover>>

\* The switch entity: set_enabled
Toggle ==
  /\ Stimulus /\ ~RingClosed
  /\ enabled' = ~enabled
  /\ Invalidate /\ pending' = 0
  /\ UNCHANGED <<lisVars, hubVars, sequence, current, photo, foreign, stepVars, save, saved, diskVars, link, libVars, stray, stored, now, published, approved, leftover>>

-----------------------------------------------------------------------------
(* Both captures: lease, picture, release, validation (snapshot._capture)  *)

StepTo(c, s) == step' = [step EXCEPT ![c] = s]
Unmoved == UNCHANGED <<stimuli, lisVars, hubVars, foreign>>

\* capture_fresh_image: nothing shown before this moment is accepted
AskImage(c) ==
  /\ StepTo(c, "lease")
  /\ fresh' = [fresh EXCEPT ![c] = FALSE]

\* hub._image: a decoded picture wakes whoever waits
Picture ==
  /\ \E c \in Captures : step[c] = "lease" /\ ~fresh[c]
  /\ image' = [c \in Captures |-> IF step[c] = "lease" THEN rings ELSE image[c]]
  /\ fresh' = [c \in Captures |-> TRUE]
  /\ Unmoved /\ UNCHANGED <<photoVars, step, toMedia, dropped, storeVars>>

\* wait_for_image: a picture newer than when it was asked for
ImageNewer(c) == fresh[c]

\* wait_for_image returns, or acquiring or waiting fails; the lease is released first
CaptureEnds(c) ==
  /\ step[c] = "lease"
  /\ \/ ImageNewer(c) /\ StepTo(c, "image")
     \/ StepTo(c, "release")
  /\ Unmoved /\ UNCHANGED <<photoVars, fresh, image, toMedia, dropped, storeVars>>

\* validate_jpeg in the executor: a broken picture is a failure like no picture
Validate(c) ==
  /\ \/ step[c] = "image" /\ \E s \in {"valid", "invalid"} : StepTo(c, s)
     \/ step[c] = "release" /\ StepTo(c, "invalid")
  /\ Unmoved /\ UNCHANGED <<photoVars, fresh, image, toMedia, dropped, storeVars>>

-----------------------------------------------------------------------------
(* RingImageCapture._run                                                   *)

\* Mutant of Current: whether a newer ring came is not looked at.
CurrentWhateverRang == ~Stopped /\ enabled

Current == ~Stopped /\ enabled /\ ~stale

\* The next round of `while`: take what is pending
RingNext ==
  /\ step["ring"] = "idle" /\ pending # 0 /\ ~RingClosed
  /\ current' = pending /\ pending' = 0 /\ stale' = FALSE
  /\ StepTo("ring", "delay")
  /\ Unmoved /\ UNCHANGED <<enabled, sequence, photo, fresh, image, toMedia, dropped, storeVars>>

\* _wait_fallback: the configured delay is over, or this ring no longer counts
RingDelayOver ==
  /\ step["ring"] = "delay"
  /\ \/ Current /\ AskImage("ring")
     \/ ~Current /\ StepTo("ring", "idle") /\ UNCHANGED fresh
  /\ Unmoved /\ UNCHANGED <<photoVars, image, toMedia, dropped, storeVars>>

\* Superseded or failed; otherwise on to the disk with a cancellation of its own
RingSaves ==
  /\ step["ring"] \in {"valid", "invalid"}
  /\ IF Current /\ step["ring"] = "valid"
       THEN StepTo("ring", "save") /\ StartSave("ring")
       ELSE StepTo("ring", "idle") /\ UNCHANGED saveVars
  /\ Unmoved
  /\ UNCHANGED <<photoVars, fresh, image, toMedia, dropped, diskVars, link, libVars, stray, stored, now, published, approved, leftover>>

\* The file, if there is one, is this capture's from now on
Publish(c) ==
  /\ link' = [link EXCEPT ![c] = saved[c]]
  /\ published' = published \cup (IF saved[c] = 0 THEN {} ELSE {disk[saved[c]]} \ {0})
  /\ save' = [save EXCEPT ![c] = "idle"]
  /\ saved' = [saved EXCEPT ![c] = 0]

RingPublishes ==
  /\ step["ring"] = "save" /\ save["ring"] \in {"done", "error"} /\ Current
  /\ Publish("ring")
  /\ photo' = [ring |-> current, taken |-> image["ring"]]
  /\ StepTo("ring", "idle")
  /\ Unmoved
  /\ UNCHANGED <<enabled, pending, sequence, current, stale, fresh, image, toMedia, dropped, diskVars, cancelled, libVars, stray, stored, now, approved, leftover>>

\* Mutant of RingDiscards: the file of an overtaken ring stays.
RingKeepsFile ==
  /\ step["ring"] = "save" /\ save["ring"] \in {"done", "error"} /\ ~Current
  /\ save' = [save EXCEPT !["ring"] = "idle"]
  /\ saved' = [saved EXCEPT !["ring"] = 0]
  /\ StepTo("ring", "idle")
  /\ Unmoved
  /\ UNCHANGED <<photoVars, fresh, image, toMedia, dropped, cancelled, diskVars, link, libVars, stray, stored, now, published, approved, leftover>>

RingDiscards ==
  /\ step["ring"] = "save" /\ save["ring"] \in {"done", "error"} /\ ~Current
  /\ save' = [save EXCEPT !["ring"] = "discard"]
  /\ StepTo("ring", "discard")
  /\ Unmoved
  /\ UNCHANGED <<photoVars, fresh, image, toMedia, dropped, saved, cancelled, diskVars, link, libVars, stray, stored, now, published, approved, leftover>>

Discarded(c) ==
  /\ step[c] = "discard" /\ save[c] = "idle"
  /\ StepTo(c, "idle")
  /\ Unmoved /\ UNCHANGED <<photoVars, fresh, image, toMedia, dropped, storeVars>>

-----------------------------------------------------------------------------
(* ManualSnapshotCapture                                                   *)

\* One at a time; refused once the hub stops
ManualBegins ==
  /\ Stimulus /\ ~Stopped /\ step["manual"] = "idle"
  /\ AskImage("manual")
  /\ toMedia' \in BOOLEAN
  /\ dropped' = FALSE
  /\ UNCHANGED <<lisVars, hubVars, photoVars, image, storeVars>>

\* The caller is cancelled: the lease is still released and a save drained, but
\* nothing is published; while the executor validates it ends at once.
ManualDropped ==
  /\ Stimulus /\ step["manual"] # "idle" /\ ~dropped
  /\ dropped' = TRUE
  /\ cancelled' = [cancelled EXCEPT !["manual"] = @ \/ step["manual"] = "save"]
  /\ step' = [step EXCEPT !["manual"] = IF @ = "lease" THEN "release" ELSE @]
  /\ UNCHANGED <<lisVars, hubVars, photoVars, fresh, image, toMedia, save, saved, diskVars, link, libVars, stray, stored, now, published, approved, leftover>>

ManualSaves ==
  /\ step["manual"] \in {"valid", "invalid"}
  /\ IF step["manual"] = "valid" /\ ~Stopped /\ ~dropped
       THEN /\ StepTo("manual", "save")
            /\ IF toMedia THEN StartSave("manual")
                          ELSE save' = [save EXCEPT !["manual"] = "done"] /\ UNCHANGED <<saved, cancelled>>
       ELSE StepTo("manual", "idle") /\ UNCHANGED saveVars
  /\ Unmoved
  /\ UNCHANGED <<photoVars, fresh, image, toMedia, dropped, diskVars, link, libVars, stray, stored, now, published, approved, leftover>>

ManualPublishes ==
  /\ step["manual"] = "save" /\ save["manual"] \in {"done", "error"} /\ ~Stopped /\ ~dropped
  /\ Publish("manual")
  /\ StepTo("manual", "idle")
  /\ Unmoved
  /\ UNCHANGED <<photoVars, fresh, image, toMedia, dropped, diskVars, cancelled, libVars, stray, stored, now, approved, leftover>>

ManualDiscards ==
  /\ step["manual"] = "save" /\ save["manual"] \in {"done", "error"} /\ (Stopped \/ dropped)
  /\ save' = [save EXCEPT !["manual"] = "discard"]
  /\ StepTo("manual", "discard")
  /\ Unmoved
  /\ UNCHANGED <<photoVars, fresh, image, toMedia, dropped, saved, cancelled, diskVars, link, libVars, stray, stored, now, published, approved, leftover>>

-----------------------------------------------------------------------------
(* async_unload_entry, WelcomeEyeHub._stop and a new async_setup_entry     *)

\* PhotoManager.detach: the confirmation goes, running deletions are drained
Detach ==
  /\ Stimulus /\ unload = "loaded"
  /\ unload' = "detach"
  /\ libClosed' = TRUE /\ token' = FALSE /\ plan' = {}
  /\ UNCHANGED <<lisVars, connected, rings, photoVars, stepVars, diskVars, saveVars, link, job, todo, gone, libLock, lastRun, stray, stored, now, published, approved, leftover>>

\* stopped, and RingListener.close; its thread is joined for at most 15 s
Stop ==
  /\ unload = "detach" /\ JobsDrained
  /\ unload' = "stopping"
  /\ lisClosed' = TRUE /\ connected' = FALSE
  /\ UNCHANGED <<stimuli, pressed, listener, seen, calls, rings, photoVars, stepVars, storeVars>>

\* RingImageCapture.close, which waits for its task to finish
CloseRing ==
  /\ unload = "stopping"
  /\ unload' = "ring"
  /\ Invalidate /\ pending' = 0
  /\ UNCHANGED <<stimuli, lisVars, connected, rings, enabled, sequence, current, photo, foreign, stepVars, save, saved, diskVars, link, libVars, stray, stored, now, published, approved, leftover>>

\* Mutant of CloseManual: it does not wait for the task of the ring photo.
CloseManualAtOnce ==
  /\ unload = "ring"
  /\ unload' = "manual"
  /\ cancelled' = [cancelled EXCEPT !["manual"] = TRUE]
  /\ UNCHANGED <<stimuli, lisVars, connected, rings, photoVars, stepVars, save, saved, diskVars, link, libVars, stray, stored, now, published, approved, leftover>>

\* ManualSnapshotCapture.close, likewise
CloseManual ==
  /\ unload = "ring" /\ step["ring"] = "idle"
  /\ unload' = "manual"
  /\ cancelled' = [cancelled EXCEPT !["manual"] = TRUE]
  /\ UNCHANGED <<stimuli, lisVars, connected, rings, photoVars, stepVars, save, saved, diskVars, link, libVars, stray, stored, now, published, approved, leftover>>

Unloaded ==
  /\ unload = "manual" /\ step["manual"] = "idle"
  /\ unload' = "unloaded"
  /\ UNCHANGED <<stimuli, lisVars, connected, rings, photoVars, stepVars, storeVars>>

\* The objects of a new load.  What the Store file says survives.
NewObjects ==
  /\ listener' = "off" /\ lisClosed' = FALSE /\ seen' = {} /\ calls' = <<>>
  /\ connected' = FALSE /\ rings' = 0 /\ unload' = "loaded"
  /\ pending' = 0 /\ sequence' = 0 /\ current' = 0 /\ stale' = FALSE
  /\ photo' = NoPhoto /\ foreign' = {}
  /\ step' = [c \in Captures |-> "idle"] /\ fresh' = [c \in Captures |-> FALSE]
  /\ image' = [c \in Captures |-> 0] /\ toMedia' = FALSE /\ dropped' = FALSE
  /\ save' = [c \in Captures |-> "idle"] /\ saved' = [c \in Captures |-> 0]
  /\ cancelled' = [c \in Captures |-> FALSE] /\ link' = [c \in Captures |-> 0]
  /\ token' = FALSE /\ plan' = {} /\ job' = [j \in Jobs |-> "idle"]
  /\ todo' = [j \in Jobs |-> {}] /\ gone' = [j \in Jobs |-> {}]
  /\ libLock' = None /\ libClosed' = FALSE /\ LibraryStarts
  /\ UNCHANGED <<pressed, enabled, disk, folder, inode, taken, stored, now, published, approved>>

Reload ==
  /\ unload = "unloaded" /\ listener = "dead"
  /\ NewObjects
  /\ UNCHANGED <<stimuli, temporary, diskLock, stray, leftover>>

\* Home Assistant is killed: files remain as they are, a temporary one as well
Crash ==
  /\ Stimulus
  /\ NewObjects
  /\ temporary' = {} /\ diskLock' = None
  /\ stray' = (stray \/ temporary # {})
  /\ leftover' = leftover \cup ({disk[saved[c]] : c \in {d \in Captures : saved[d] # 0}} \ {0})

-----------------------------------------------------------------------------
Library ==
  \/ Stimulus /\ (Prepare \/ TimePasses) /\ UNCHANGED <<lisVars, hubVars, photoVars, stepVars>>
  \/ (PlanEnds \/ Confirm \/ Cleanup \/ StoreNext)
       /\ UNCHANGED <<stimuli, lisVars, hubVars, photoVars, stepVars>>

Next ==
  \/ \E p \in Presses : Press(p) \/ Accept(p)
  \/ ListenerOpens \/ ListenerConnected \/ ListenerRefused \/ ListenerFails \/ ListenerEnds
  \/ LoopRuns \/ Toggle \/ Picture
  \/ \E c \in Captures : CaptureEnds(c) \/ Validate(c) \/ Discarded(c)
  \/ RingNext \/ RingDelayOver \/ RingSaves \/ RingPublishes \/ RingDiscards
  \/ ManualBegins \/ ManualDropped \/ ManualSaves \/ ManualPublishes \/ ManualDiscards
  \/ Detach \/ Stop \/ CloseRing \/ CloseManual \/ Unloaded \/ Reload \/ Crash
  \/ Library

Spec == Init /\ [][Next]_vars

-----------------------------------------------------------------------------
(* Properties                                                              *)

\* A photo that is published shows the visitor of the newest ring: it is that
\* ring's, its picture arrived after it and before any other, and it comes from
\* the panel that rang.  Superseding, the switch, a reload and a picture that is
\* validated and saved while the bell rings again must not mix them up.
PhotoOfLatestRing ==
  [][photo' # photo /\ photo' # NoPhoto =>
       photo' = [ring |-> rings', taken |-> rings'] /\ photo'.ring \notin foreign']_vars

\* A file a capture was published with stays on disk until an administrator
\* confirmed that very file or retention selected it: saving never overwrites,
\* undoing a save and deleting an older plan never hit a newer file.
PublishedPhotosKept == published \subseteq ({disk[n] : n \in Names} \cup approved)

\* A file nobody was told of is still being saved, or a discard that failed or
\* a crash left it: superseding, closing and cancelling undo what they overtake.
NoOrphans ==
  \A n \in Names : disk[n] # 0 =>
    \/ disk[n] \in published \cup leftover
    \/ \E c \in Captures : saved[c] = n

\* Nothing of a load outlives its unload: no capture, no write, no deletion in an
\* executor thread that would change the folder behind the next load's back, and
\* the listener was told to end.
UnloadDrained ==
  unload = "unloaded" =>
    /\ \A c \in Captures : step[c] = "idle" /\ save[c] = "idle" /\ saved[c] = 0
    /\ JobsDrained /\ libLock = None /\ diskLock = None /\ temporary = {}
    /\ lisClosed /\ pending = 0

\* Retention tries at most once in 24 hours, across reloads and crashes.
RetentionSpaced == [][stored' # stored /\ stored # -1 => stored' - stored >= 2]_vars

=============================================================================
