# WelcomeEye: models and proofs

The integration talks to Philips WelcomeEye video intercoms on the local network: live video
over a media session that the device offers to one client at a time, the microphone, door
strike and gate commands, the doorbell, photos of visitors, and cloud calls. The code is Python in
`custom_components/welcomeeye_local` (paths below are relative to it): an asyncio event loop
(Home Assistant), blocking threads for sockets, executor threads for the actions of users and
for disks, and a dashboard card in the browser.

Three families of devices share it. Legacy (V1, Connect 2) devices speak OWSP over TCP
(`client.py`, `hub.py`, `control.py`, `ring.py`); Connect 3 and R002 devices speak QV over TLS
(`connect3/`); V1 and QV devices can also ring through their vendor's cloud.

| file | what it is |
| --- | --- |
| `MediaLease.tla` | what the hub and a Connect 3 entry promise: one media session, opened for a lease, closed with the last |
| `MediaHub.tla` | `WelcomeEyeHub`: acquire, release, worker thread, callbacks, unload, and its rivals |
| `OutputCommand.tla` | what an output command promises: it leaves once or not at all, and its caller is told what is true |
| `V1Output.tla` | `DeviceController` and `V1MediaOutput`: a command from the button to its verdict |
| `Session.tla` | the TCP sessions of a legacy device: discovery and its cache, login, frames, the listener |
| `Diagnostic.tla` | the explicit diagnostics among those sessions |
| `PhotoStore.tla` | photos on disk: private writes, publication, deletion, retention |
| `Doorbell.tla` | a press, from the alarm to the photo shown and stored, over `PhotoStore` |
| `Connect3.tla` | a Connect 3 entry: two channels, one reader, outputs, microphone, diagnostics, unload |
| `Fcm.tla` | what the two cloud doorbells share: the saved record, the push receiver, the vendor |
| `CloudBell.tla` | what a cloud doorbell promises: all that is subscribed can be removed, and a call rings once |
| `V1Cloud.tla`, `QvCloud.tla` | the run of either cloud doorbell |
| `CloudEntry.tla` | set-up, reconfiguration, removal and crash over either of them |
| `Onboarding.tla` | the configuration dialogs, certificates, consents and cloud devices |
| `Rtc.tla` | `WebRTCManager`, `Talkback`: WebRTC viewers and the microphone |
| `Card.tla` | the browser page and the dashboard card, over `Rtc` |
| `LocalStream.tla` | `LocalVideoStream`: HTTP readers of one encoder, over the hub part of `Rtc` |
| `Pictures.tla` | the pictures of a V1 or Connect 2 session, from packets to decoder and transport stream |
| `Viewers.tla` | the composition of `Card`, `LocalStream` and `Pictures` |
| `*_proofs.tla` | the theorems about the module of that name |
| `MC*.tla`, `*.cfg` | instances for TLC; a cfg is run on the MC module `PROJECT.json` names |
| `PROJECT.json` | components, runs, mutants, the definition-to-source map, hazards, findings |

Run `tlc -config hub_rivals.cfg MCMediaHub`, `tlapm MediaHub_proofs.tla` and so on.
Definitions marked as mutants are plausible bugs. They are not part of `Next`; substituted
for the definition that follows them they violate the property `PROJECT.json` names.

## Inventory

| component | state it keeps | operations | what is hard | correct when | modelled in |
| --- | --- | --- | --- | --- | --- |
| Shared media session, `hub.py` | leases, worker thread, generation, ready/connected/error, active channel, `hub.lock` | `acquire`, `release`, `_halt_media`, `_worker`, `_dispatch`, `stop` | loop, worker thread and executor interleave; late callbacks; joins that time out; reload after identification | one worker; no lease on a stopping worker; panels exclude each other; a waiter is always answered | `MediaHub` |
| Output commands, `control.py`, `v1_control.py` | `control.lock`, one pending request, `uncertain_session`, counters | `unlock`, `unlock_target`, `execute`, `observe`, `send_pending`, `media_closed`, `close` | three threads on one request; lost or late replies; cancellation; unload | one attempt, on its own session; no reply credited to another command; a certain failure is certain | `V1Output`, `Session` |
| TCP sessions, `client.py`, `ring.py` | shared discovery cache, socket, framing state | `discover`, `connect`, `read`, `close`, `_run` | a cache all threads share; time-outs inside a frame; a device that moves or is replaced | whole frames; the right device; the listener comes back | `Session` |
| Doorbell trial and diagnostics, `v1_doorbell_trial.py`, `experimental_*.py` | both locks, a thread with a session | `run`, `start`, `close`, `_busy` | idleness is tested before the lock is taken; cancellation while a thread runs | alone on the device | `MediaHub`, `Diagnostic` |
| Ring bus and photos, `ring_image.py`, `snapshot.py`, `manual_snapshot.py` | ring count, pending ring, revision, capture in progress | `_ring`, `request`, `_run`, `capture`, `close` | a second ring during a capture or a save; old frames | the photo shows the newest ring | `Doorbell` |
| Photo library, `photo_*.py`, `media_storage.py` | files, plans, retention date | `save`, `discard`, `plan`, `delete`, `cleanup` | deletion during a capture; names used again; a crash between date and deletion | no file lost, none orphaned | `PhotoStore` |
| Microphone, `talkback.py` | owner, session, state of the request, heartbeat | `start`, `stop`, `observe`, `media_closed` | one lock, slow replies, stop while it starts | the device listens only to who wants it | `Rtc`, `MediaHub` |
| Viewers, `rtc.py`, `local_stream.py`, `player.py` | per-viewer peer, jobs, queues | offer, candidate, close, serve, encode | a viewer that vanishes between two awaits; full queues | every lease is dropped once; no broken picture chain | `Rtc`, `LocalStream` |
| Dashboard card, `frontend/welcomeeye-card.js` | selected entry, sessions, clicks | open, select, press, close, page hide | tasks that outlive their click | the old entry is released before the new one is used | `Card` |
| V1 cloud doorbell, `v1_cloud*.py` | record on disk, push socket, calls seen | start, subscribe, listen, unsubscribe, stop | crash between save, request and reply; redelivery | nothing stays subscribed unknown; a call rings once | `V1Cloud`, `Fcm` |
| QV cloud calls, `qv_cloud*.py` | intents, calls seen, account | authorize, register, subscribe, listen, disable | the same, and readback that may disagree | the same | `QvCloud`, `Fcm` |
| Connect 3, `connect3/` | claim, leases, one session, talk route, jobs | acquire, release, unlock, talk, photo, read, observe, stop | everything waits for everything at the unload | one reader; a code goes out once | `Connect3` |
| Configuration, `config_flow.py`, `qv_cloud_flow.py`, `connect3/trust.py` | what each dialog has read, shown and been told | every step of the forms | two dialogs at once; a certificate replaced meanwhile | no consent outlives its target | `Onboarding` |
| Second panel, `legacy_channel.py`, `legacy_snapshot.py` | its consumers, image | `acquire`, `release`, `stop` | stop while an acquire waits | its leases end with it | as consumers of `MediaHub` |
| Media conversion, `media.py`, `v1_video.py` | receiver and decoder state | receive, decode, drop until a key frame | recovery after loss | no picture from a broken reference | `Pictures` |
| R002 investigation, `r002/` | bounded connections | one request each | another diagnostic runs | bounded, alone | `Connect3` (`R002Busy`, `Investigate`); its dialog: `Onboarding` |
| Entities | entity state | Home Assistant glue | set-up order | covered where the hub does it | set-up and unload |

**How they interact.** Every consumer of video (viewers, snapshots, commands, microphone) calls
`hub.acquire`/`hub.release` on the loop. The first lease starts a thread running `_worker`; the
last release stops and joins it while holding `hub.lock`. The worker calls `talkback.observe`,
`v1_media.observe` and `v1_media.send_pending` directly (same thread, guarded by small thread
locks), and reports to the loop only through `call_soon_threadsafe`, tagged with a generation.
Commands of the main panel run in executor threads and wait for a coroutine of the loop; those
of the second panel are loop tasks. The doorbell listener is a thread of its own with a session of its own;
its alarms reach the ring bus the same way. Photos are written and deleted by executor jobs
under one disk lock. A Connect 3 entry has no thread: its session, jobs and viewers are tasks of
the loop. `hub.stop` closes everything in a fixed order.

## MediaHub and the code

A step is the code between two awaits of a loop task, or between two blocking calls of a
thread.

* **acquire** (hub.py:468-561): `Acquire` up to the wait for `hub.lock`; then one of
  `AcquireRefused`, `AcquireShared` (a live worker that was not told to stop) or `AcquireStart`
  (a new generation); then `ready.wait()`, left by `AcquireReturn`, or by `AcquireAbort` (38 s, or
  cancellation).
* **release** (563-619): `ReleaseShared`, or `ReleaseLast`, which tells the worker to stop and keeps
  `hub.lock` until `ReleaseJoined` or, after 15 s or an exception of `interrupt_read`,
  `ReleaseJoinFailed`, which skips the rest of `_release` as the code does.
* **worker** (988-1282): `WorkerLoop`, `WorkerNext` (next profile), `WorkerLogin`,
  `WorkerFormat`, `WorkerVideo`, errors, `WorkerFinish` (`_finish_session`), `WorkerDecide` (what
  follows a session), `WorkerBackoff`.
* **callbacks** (621-652): a queue of posted events; `DispatchStale` drops those of an older
  generation or after the unload.
* **unload** (1284-1348): `StopBegin`, `StopHalt`, `StopJoined`, `StopJoinFailed`.
* **rivals**: output commands of both panels (`Unlock*`, `Target*`), the microphone (`Talk*`), the
  doorbell trial (`Trial*`), each with the checks it makes of the hub and those the hub makes of it.
  Between `TrialClaim` and `TrialEnter` others can act only when `hub.lock` has waiters; the model
  lets them act always, which allows more than the code does.

`MediaLease` is the promise without the machinery: leases are taken and dropped, the device is
free, open or closing, and a lease is never granted while it closes. `ImplementsLease` maps
`consumers`, the live worker threads and the unload to it. The hub ends at once (`Shutdown`); a Connect 3 entry
ends in stages (`Staged`): it refuses new leases first and takes the others away channel by channel
(`Refuse`, `Withdraw`).

## V1Output and the code

The media session is reduced to what the commands see of it: it opens for one of the panels,
reads, may fail at any time, and closes in two steps (`MediaClosed`, where `media_closed` resolves
the request, then `SessionClosed`, where `hub.session` becomes None). That is more than
`MediaHub` allows, because viewers may come and go at any time.

* **callers**: `UnlockBegin`, `UnlockRefused`, `UnlockSubmit`, `UnlockResult` for the executor thread of
  `unlock`; `UnlockImpatient` is its 80 s limit; `TargetBegin`, `TargetEnd`, `TargetCancel` for
  `unlock_target`. `Failure` is the computation of `physical_request_uncertain`.
* **execute**: `AcquireReturns` reads `hub.session`; `Enqueue` is the first locked section;
  `WaitEnds`, `Accepted`, `RefusedByDevice`, `DecodeFails` leave the wait; `Except`, `IdleOff` and
  `Finally` are the separate pieces of the except and finally blocks. They run without an await,
  so no other loop task runs in between (`busy`), but the worker thread may.
* **worker**: `Observe` (one batch, at most one reply), `Claim` / `ClaimRefused` / `NothingToSend`
  (the rechecks of `send_pending` under both locks; its first check only avoids taking the write
  lock and is repeated there), `Send` / `SendFails`.
* **unload**: `CloseFlag` sets `closed`, `Close` is `V1MediaOutput.close` and the cancellations.

`OutputCommand` is the promise to who pressed the button, without sessions, threads or tasks: a command leaves once
(`Send`), is given a reply (`Answer`), and its caller is told once how it ended (`Tell`): that it worked only if there was a reply,
that nothing happened only if nothing left or the reply refused it, that it is uncertain only if it left.
`ImplementsCommand` maps `sentOn`, `answeredBy`, `verdict` and `gaveUp` to it.

`sentOn`, `answeredBy` and `gaveUp` record what happened; no action tests them. The device
answers a request that reached it, once, late, or never. Changes of the entry's options while a command
waits are a `ClaimRefused` at any time. The three seconds between commands are a possible refusal once
something was sent. The fields of a request are reset when `Finally` drops it, since nothing
reads them afterwards. A reply decodes as accepted, refused or garbled, whoever it answers.

## Session and Diagnostic and the code

A session is a thread (`at[u]`, one place per blocking call) of one of five users: the doorbell
listener, an output command, the media worker, a configuration dialog and a diagnostic. What is kept of
a connection is which device it goes to, and of its byte stream where frames begin (`pos`) and what
the reader takes the next bytes for (`rd`).

* **discovery** (client.py:46-125, 175-220): `DiscoverCached`, `DiscoverProbes`, `ProbeAnswered`, `ProbeFails`
  under `_DISCOVERY_LOCK`; `Evict` and `RecoverAfterRefused` forget an observation, by identity. An
  observation is a fresh identifier, since the code compares with `is`.
* **connect** (client.py:175-335): `TcpConnects`, `TcpRefused`, `SendLogin`, `LoginAccepted`,
  `LoginRefused`; `Usable` is the refusal of an unprotected device without an approval.
* **read** (client.py:429-525, 605-680): `ReceivesPart`, `ReceivesWord`, `ReceivesZero`, `ReceivesOther`, `IdlesOn`
  (the login keeps a part of a frame), `IdlesOut` (a time-out between frames), `ReadFails`, `Lost`.
* **users**: `Begins`, `Open`, `Finishes`, with `Identified` for the checks of the unique id in ring.py:357 and
  control.py; `CommandSends` and `CommandAnswered`. `DeviceMoves` is the environment.
* **diagnostic** (experimental_diagnostics.py:85-445): `DiagStarts` takes both locks, `DiagCancel` sets
  the event and waits, `DiagCloses` and `DiagReleases` end the thread and then the task.

A login that does not decode raises no `OSError`, so the observation it used stays in the cache; that is why
`ListenerRecovers` excepts a remembered device of another identity. The identity of a video session is
checked only when a command is sent. The unload does not close the session of the media worker
here (it does in `MediaHub`). `_v1_read_failed`, `pause_for_control`/`resume_after_control`
(ring.py:192-243) and `standby_ring.py`, which nothing calls, are left out.

## Doorbell and PhotoStore and the code

* **listener** (ring.py): a thread whose reports are calls posted to the loop (`calls`), run in order by
  `LoopRuns`, or one by one before a connection is reported.
* **ring bus** (hub.py): `Accept`, `Invalidate`, `Request`, `Reject` and `Ring`.
* **ring photo** (ring_image.py): `RingNext`, `RingDelayOver`, `AskImage`, `Picture`, `CaptureEnds`,
  `Validate`, `RingSaves`, `RingPublishes`, `RingDiscards`; the revision test is `Current`. The manual snapshot
  takes the same steps with `Manual*`.
* **files** (media_storage.py, photo_files.py): `StartSave`, `WriteBegins`, `WriteLinks`, `WriteChecksAgain`, `WriteEnds`,
  `Discard`; a name is a collision suffix, an inode number the signature a plan remembers.
* **library** (photo_library.py): `Prepare`, `Confirm`, `DeleteBegins`, `DeleteOne`, `DeleteEnds`, `Reconcile`;
  `Cleanup` saves its date first, `CleanupSelects` lists afterwards.
* **life**: `Detach`, `Stop`, `CloseRing`, `CloseManual`, `Unloaded`, `Reload`, and `Crash` anywhere.

The captures of both kinds hold leases of the media service; what the service does is in `MediaHub`. A day is two
steps of `TimePasses`, so that a clean-up can be early by half a day.

## Connect3 and the code

`claim` is the channel that has the device (`_claim_media`), `consumers`, `run`, `sid` and `lock` are the `LiveMedia`
of each channel. `Move`/`at` are the viewers and the output action between their awaits: `Ask`, `Enter`, `Resolve`,
`GiveUp`, `Leave`, `Release`, `Released`. The run of a session is `Prepare`, `Connecting`, `SessionStarts`,
`PlayAccepted`, `Frame`, `ReadBreaks`, `RunFails`, `CloseTalk`, `RunEnds`. Outputs are `Unlock`, `OutputBegins`,
`OutputWrites`, `OutputAnswered`, `OutputUnanswered`, `OutputEnds`; `Authorized` is every check session.py makes after
its write lock. The microphone is `TalkStart` to `TalkClosed`, over the route that `TalkRoute` chooses. `Read`, `Listen`
(the alarm diagnostic), `RingPhoto` and `Observe` are the jobs. `Reconfigure` and `TrustLost` change what was read before
an await; `Unload` and `UnloadProceeds` follow the order of `stop()`. `granted` stands for the grant of the controller and for the
microphone option of channel 2.

## The cloud modules and the code

A private record (`disk`, `mem`, `save`) is saved and read back before anything relies on it. A request to the vendor takes
effect when it is sent, or never; its reply may be lost either way. A call waits at Google for a token until it is
acknowledged, and comes again to the next connection. Timestamps are the set of dates a message carries, each invalid, fresh or stale.

`V1Cloud`: `V1Load`, `V1Loop`, `V1Unsubscribe`, `V1Forget`, registration, `V1Intent` (saved before the
subscription is asked for), listening, and the last unsubscription on every way out. `QvCloud`: authorization, registration,
`QvIntent`, `QvSubscribe` with its readback, `QvTurnOff` with its own, `QvMessage` to `QvSaved`. `CloudEntry`: `Setup`,
`Reconfigure`, `Remove`, `Unload`, `CloudCloses`, `Stopped`, `Removed`, `Crash`. `CloudBell` is the promise of
either vendor's doorbell, without tasks, tokens, replies and files; `ImplementsBell` maps to it what the vendor is subscribed for (`remote`), what the record
on disk can remove (`Removable`: its intents, if it has a token), whether a ring is wanted (`Opened`), and the calls that Google still holds (`Due`). The V1 branch of `_credentials_changed` that rotates a token cannot be
reached and is left out.

## Onboarding and the code

A dialog is a record: where it waits (`pc`), the data it has read (`base`), what the owner submitted (`form`), the certificate it
shows and those it was told are right (`confirmed`), the consents and the cloud device it is about to store. Every step of
`config_flow.py` is an action: `Submit`, `Inspected`, `Confirm`, `Reinspected`, `Accessed`, `Trials`, `Alarm`, `Account`, `LoggedIn`, `Device`,
`LegacySubmit`, `DiscoverySubmit`, `Validated`, `Reauthenticated`; `Saves` and `Stores` are the two ways to store. `Replace` changes the certificate of a host. A
certificate is one the system trusts, one it does not, a special one (trusted but to be pinned), or one that is unfit and is never accepted.

## Viewers and the code

`Rtc` lets the hub appear as what `MediaHub` shows it to promise (leases, a source that is joined by whoever returns the last
lease). An offer is `Register`, `Describe`, `Acquire`, `Acquired`, `Answer`, or one of the ways out; a close is
`CleanupCancels` to `CleanupEnds` and `CloseMic` to `CloseLease`. A microphone job is the pair of the command that began it and
its place in `talkback`: `TalkStarts`, `TalkSent`, `TalkReply`, `TalkOn`, `TalkFails`, `StopBegins`, `StopEnds`. Who waits for the lock of the microphone is kept as
pairs, who asked before whom (`queue`), and the lock is handed over in order of arrival; the 0.8 s rest after a stop (`CoolDown`) passes only when no job waits; a disable of a microphone that was never
asked for is left out. A job that can have that lock has it before the next
command arrives, the watchdog looks again or a media session that was lost is up again (`HandedOver`): the code hands the lock over in one turn of the loop, the others
take a packet, a second or a login. `MicFollowsUser` relies on it. Were the loop to stand still for as long as a reconnection takes, a watchdog's stop of a second-panel
page could be answered between two of its commands, after which the device would hear the page until its heartbeat is missed, 3 s later. With `HandedOver` the
property also holds on instances larger than the run: one page with six commands and three faults, and two pages with six clicks and three
lost sessions while no page leaves. `Card` has the page (`PageLeaves`, `MicToggle`, `ReleaseAsks`) and the tasks of the card (`CardOpens`, `CardSelects`, `OutputClicked`, ...), each with
whether its captured `_generation` still holds. `LocalStream` has readers, packets and the encoder: `PacketArrives`, `DropsLate`, `Muxes`, `EncoderFails`. Its
audio, which never holds video back, is left out. `Pictures` is what the worker of a V1 or Connect 2 does with its packets: `LogsIn`
and `FormatArrives` make the receiver and the pipeline, `MetadataArrives`, `PictureArrives` and `FragmentArrives` are the packets, `Skips` is
the device leaving a picture out, and `Fed` is `feed_video`. It meets nothing else of this module, so it is a cast of its own.

## Runs

Bounds are the CONSTANTS of each cfg.

| run | instance | question and answer |
| --- | --- | --- |
| `hub_rivals` | viewer and HTTP reader, two panels, every variant, all rivals, slow joins, 2 profiles | trial, panels, commands, microphone and single worker exclude each other; ready means a live worker; the lease service is implemented |
| `hub_progress` | viewer and photo, fair | the unload ends; unused devices are let go; waiters are answered; ring-only leases settle |
| `hub_ring_share` | viewer and photo, 1 worker | **violation**: see findings |
| `hub_reload_gap` | two viewers, slow joins | **violation**: see findings |
| `output_commands` | two commands of any panels, two sessions, all failures | whose reply a command gets, the time-out flag, one attempt; `OutputCommand` is implemented |
| `output_late_reply` | two second-panel commands, one session | **violation**: see findings |
| `sessions` | listener and command; media worker and dialog; diagnostic and command; a device that moves, is reset or replaced twice | frames, identity, the cache, the diagnostic alone; the listener comes back |
| `doorbell_photos` | two presses of two panels, a manual snapshot, deletion, retention, reload, crash | whose photo is shown, which files stay |
| `connect3_entry` | two viewers, an output, everything else once, three outside events | one reader, claims, what rides on a session, one code, the unload ends |
| `cloud_entries` | either vendor, two calls, three losses, reconfigurations or crashes | nothing subscribed is forgotten, no unwanted ring; `CloudBell` is implemented: one ring per call, only when due and open |
| `onboarding` | two dialogs over a Connect 3, an R002 and a legacy entry, seven forms, four certificates, two hosts | consents, pins, lost updates, cloud devices |
| `viewers` | the card; two pages with microphones; two readers; a worker's pictures | leases, the microphone, output after release, picture chain |

**Why the bounds are enough.** The hub's hazards need two tasks (one releases, one acquires), a
third only for a mixture of retry policies, and two workers (an old one and its successor); a third
worker meets the same hub state as the second. One queued callback is a stale one or a fresh one.
Two profiles make the worker cycle. For the outputs, two
commands give one whose fate is undecided and one that could be confused with it, and a second
session gives the place a request must not move to. Sessions meet in pairs: each hazard is between a
user and the cache, or two users and the locks, so the casts are pairs; two moves let the device leave and come back.
Two presses make one supersede the other; three inodes and two names let a name, and an inode number, be used again; four
half-days are two days, one clean-up and one that is too early. Three outside events are what it takes for a cause, its repair and an unload; MaxFaults
and MaxClicks bound them in `viewers`, and queues of two frames and one chunk are full at once. Two dialogs are a race. `SYMMETRY`
exchanges model values that are treated alike, and only in runs without liveness.

`CHECK_DEADLOCK FALSE` is said where the system really may stop: an entry unloaded for good, the last press or click
allowed by a bound handled, every dialog closed. What must not block there is stated by `UnloadEnds` and `ListenerRecovers`, or
by `UnloadDrained` for what an unload may leave behind.

**Fairness.** Tasks that wait for `hub.lock` get strong fairness, because `asyncio.Lock` is FIFO.
Worker steps get weak fairness, because sockets have time-outs and waits have limits, except that
a worker which shows video may do so forever. Handlers are cancelled by the unload; viewers may
hold their lease forever and nobody must come, press or unload. In `Connect3` the steps that the code takes by itself
(`Onwards`) are weakly fair as one action, since the loop runs whatever is ready and every await there has a time-out; what users,
the device and the environment do (`Outside`, `Perhaps`) is not forced. In `Diagnostic` threads run (weak fairness of what
they do alone), `_DISCOVERY_LOCK` is eventually got by who asks for it again and again (strong fairness of the listener's discovery and eviction),
a device that keeps accepting connections answers a login within its 20 s (strong fairness of the answer), and a device that is gone is missed
within the 35 s of the read (weak fairness of `Lost`).

**Qualified properties.** `ReplyBelongs` allows a wrong reply only on a session on which yet another command was
cancelled, and `IdleScoped` excepts commands whose execution was cancelled, because of the third finding; the
wrong replies may cascade: each later command of that session may be given the reply of the one before. `OutputCommand` (`abandoned`) and `CertainFailure` except behaviours in which `future.result`
ran out after 80 s: the verdict is then computed before the cancelled coroutine has settled,
and `control.lock` is free while it may still send. `CloudBell` (`careless`) lets a V1 call ring again after a crash or a failed save, since V1 saves
what it has seen after ringing (v1_cloud.py:451); QV saves before. `ApprovedIsPinned` is about entries that do not discover their device: in discovery
mode the owner enters the pin. `ListenerRecovers` excepts a device, present or remembered, that is not the entry's.
`PredictionUnbroken` excepts the packets `on_frame` hands over behind the decoder's back and those above 1 MiB (see below), and, on a
V1 or Connect 2, pictures which the device skips without numbering any: nobody can tell.

## What is proved

From the assumptions on the constants only (subsets, positive bounds, `None` is not a command).

**MediaHub.** `IInv == TypeOK /\ ProfilesLeft /\ Exclusion` is inductive (`IInvInvariant`). The
wanted exclusions are not inductive alone:
* a second worker could start under a join in progress, unless `LockOwned` says that `hub.lock` has
  one owner and that no lease exists meanwhile;
* a lease could be dropped twice, or survive its task, unless `LeaseHolders` ties leases to
  places in `acquire`;
* panels exclude each other through `control.lock`, hence `CtlOwned`;
* types need `ProfilesLeft`, or the worker would step past its last profile.

`Exclusion` contains `OneMediaWorker`, `SessionNeedsLease`, `ChannelExclusive`,
`SecondPanelExclusive` and `TrialExclusive`; each is also a theorem by itself.
`HubImplementsLease` is a step simulation under `IInv`: worker steps stutter or map to `Free`, grants
to `Take`, releases to `Drop`, joins to `Free`, the halt of the unload to `Shutdown`, and
everything else stutters. `ReadyIsLive` needs more: that every worker is tagged with the generation it was
started for and was told to stop exactly when the generation moved on (`Tagged`), and what the queue of the loop holds
(`Callbacks`): nothing from a later generation; current reports only while their worker was not told to stop; and an "up" that is
either still true or followed by its "down". Together they are `Signals` (`SignalsInvariant`).

**V1Output.** `IInv` joins `TypeOK`, `SendsClaimed` (a worker that sends knows what), `QueuedUnsent` (a
request that may be claimed was never sent, and what is pending belongs to an execute past its
enqueueing) and `ClosedQuiet`. From it follow `TypeCorrect`, `ClosedQuietTheorem`, and
`OneAttemptTheorem`: only `Claim` counts an attempt (`AttemptIsClaim`), and what `Claim` finds is
queued, hence unsent, and of this very session.
The replies take a second invariant, `ReplyInv`. `Out` are the requests of the session that the device may still answer. `Owed` says that
nothing is out which a later command could take for its reply, unless the session is marked uncertain or another
command was cancelled on it (`Tainted`); every step of an execute, of the worker and of the device keeps it, and `ReplyBelongsTheorem` and
`IdleScopedTheorem` follow. A certain verdict is the caller's, who reads the attempts and the last result after the execute: `Callers` ties callers to `control.lock`,
and `Alone` says that, while no caller ran out of its 80 s, an execute runs for a caller that waits or was left by `close()`. Hence `CertainFailureTheorem`.
The other verdicts take a third layer, `OutcomeInv`: a success rests on a reply (`Earned`), a request that may still be sent or answered has none yet (`Fresh`),
and the attempt that a caller counts while it holds `control.lock` is its own command's (`OwnAttempt`). With all three every step is one of `OutputCommand` or a
stutter: `OutputImplementsCommand`.

**Diagnostic.** `IInv` says of every session other than a diagnostic (`UserOK`) that it has a socket exactly between connect and close, that
it uses an observation it was allowed to use, and that its stream is at the beginning of a frame whenever it reads
none; and of the diagnostic (`DiagOK`) that it holds the locks from its start until its thread is over, with nobody else on the device, and that its reader is
sound until it has failed. `FramesAlignedHolds`, `OwnDeviceOnlyHolds` and `DiagAloneHolds` follow, and `NewerKeptHolds`, since only who
used an observation evicts it. All for any number of moves and of observations.

**Doorbell.** `IInv` has a part for each thing that may go wrong. `Saves`: a capture writes exactly while its step says so, knows the file it linked, under a
name of its own, until that is published or undone, and holds the disk lock with it. `Closing`: what is closed, and stays drained, at each point of the
unload. `Kept`: no two names point to one file, what may still be undone is not published, and a deletion holds only what was approved. `Newest`: a ring
that waits for its photo or has it taken is the newest one of the main panel unless it is stale, and then so is the picture. `Remembered`: the date
of the last clean-up in memory is the stored one. From it follow `PublishedTheorem`, `OrphansTheorem`, `DrainedTheorem`, `LatestRingTheorem` and
`RetentionTheorem`, through crashes, for any number of files, presses and days.

**Viewers.** `LeaseIInv`: a lease belongs to its offer until that has answered and to its viewer until its cleanup comes to `hub.release` (`SessionLeases`);
that holds because a session is offered and closed once (`SubsOnce`, and `PagesOnce` for what its page knows of it). `LeaseReturnedTheorem` follows.
`PressTheorem` also needs `OneSession` and `PressReady`: an output still to be pressed on another entry keeps the card closed, and once the card has waited for
its releases they are acknowledged. `StreamIInv` is about the local stream: a reader has no lease before it asks for one and none once it leaves (`ReaderLeases`), there is an encoder as long as there is a queue or somebody to join it (`EncoderServes`), and packets that are queued follow each other, as will the next one, unless the stream waits for a keyframe or nobody listens (`Chain`).
The last needs `SourceLeased`, or packets nobody heard would go missing in the middle. `PicturesIInv` says that a missing picture blocks
those that depend on it, or that the numbers will tell (`Missing`). `PredictionTheorem` follows from both. `MicIInv` is about the microphone, relative to the other invariants: commands, answers and jobs are numbered
in the order of the commands (`Numbers`), a page does not ask twice (`Commands`), and if the device hears it, or will, its next command is a stop or it
still wants what it asked for (`Agreed`); the lock has one holder, a job of the owner (`Holder`); a cleanup leaves neither a voice nor a job that could start
one (`Silenced`); and who waits for a free lock finds nothing to start, unless it is alone and its command has just arrived (`Turns`). The jobs
that wait are a relation and not a sequence, so that those of a page that closes are dropped by restricting it. `MicFollowsUserTheorem` follows,
for any number of pages and commands. `Limits` bounds the queues of the local stream, frames, chunks and packets, at each place of
its encoder, which completes the types (`TypeCorrect`).

**Onboarding.** `IInv` joins the types and `Core`: what the entries never hold (`EntriesOK`), the two invariants, and for each open
dialog what it has established by itself (`Shape`: a dialog past the approval has an approved certificate, `Agreed`; one past the trials has
been granted what it will store) and towards the others (`Sole`: who creates an entry has it alone). Each action keeps it and allows only
commits over the data the dialog has read, of approved pins. From it follow `ConsentIsFreshHolds`, `OneEntryPerCloudDeviceHolds`, `NothingClobberedHolds`
and `ApprovedIsPinnedHolds`, for any number of dialogs, entries, hosts and certificates.

**CloudEntry.** `IInv` says of every record a load may start from (the file, the save in progress, the memory of this load) that it is
`Safe`: it holds every intent that is subscribed at the vendor, and a token to remove it with. That is kept only because of what each
step of a run has established (`V1Steps`, `QvSteps`: nothing is subscribed while a token is forgotten or asked for; the intent is on disk when
the subscription is asked for), of who may write when (`Tasks`), and of tokens that are never reused (`Tokens`). `V1Rung` and `QvRung`
say where a call that rang is remembered. From it follow `RemoteIsRememberedTheorem`, `RungOnceTheorem`, `RingWantedTheorem` and
`StoppedIsQuietTheorem`, for any number of calls, faults and reconfigurations. `CloudImplementsBell` puts them together: saves and crashes map to
`Save` and `Crash`, requests that reach the vendor to `Subscribe` and `Remove`, messages to `Deliver`, and all else to `Switch` or a stutter. It needs that a doorbell is
closed before its last save (`LastClosed`), so that the step that ends the save does not switch it as well. The types are a part of their own (`TypeInv`), which needs that a run past its authorization,
unless it cleans up, has a channel to subscribe for (`QvKnown`).

**Connect3.** `IInv` has three groups. `Held`: the claim is the channel that is leased or runs (`ClaimIsLease`); the lock of a channel has one
holder, the last lease that halts it or `stop()` (`Locks`); and as long as nothing has stopped the channel for good (`Loose`: only a trust failure and the
unload ask for a stop, and neither is taken back) who is in a lease is in `consumers`. `Riding`: reads and the diagnostic run with no claim at all, a
session keeps its number from its start to its end, and what rides on it knows that number. `Written`: on the wire of a session there is nothing, or one
code and at most its reply, and an output waits for it unless the session is marked uncertain (`Line`); what `sending` and `waiting` imply (`Output`).
From it follow `ClaimIsLeaseHolds`, `OneReaderHolds`, `NothingOutlivesVideoHolds`, and `WriteBoundHolds`, because only `OutputWrites` writes a code
(`OnlyOutputWrites`) and what it finds is a clear line of a session it has leased. `Connect3ImplementsLease`: the entry keeps the same promise as the hub. Its leases are the
consumers of both channels, its device what the runs of the channels show, and it is closed once the unload has begun; `ClaimIsLease` makes the two channels one device.
TLC agrees on an instance of 1.2 million states, not among the runs. `UnloadEnds` is liveness and stays with TLC.

**Only model-checked.** Liveness, which is beyond the prover, as is `ENABLED`: `StopCompletes`, `DeviceReleased`, `AcquireAnswered`,
`RingOnlySettles`, `UnloadEnds` and `ListenerRecovers`. Every type invariant, every safety invariant, every action property and every refinement of a passing run is a theorem.
Some theorems state what no run repeats: `SessionNeedsLease` is a part of `Exclusion`; `ClosedQuiet`, `StoppedIsQuiet` and Connect 3's `ImplementsLease` stand by themselves;
`CertainFailure` and `RungOnce` are contained in `ImplementsCommand` and `ImplementsBell`.

## Findings

1. `hub_ring_share`: a worker started for a ring photo reads the retry policy once, at
   the end of its session (hub.py:1258). A viewer that takes its lease after that read shares
   the dying thread, and keeps a lease that nobody reconnects. hub.py:589 promises the opposite.
2. `hub_reload_gap`: a join that times out leaves `_release` by an exception before the
   capability reload is scheduled (hub.py:586, 613-616); hub.py:309 says it is applied after
   the current consumers release.
3. `output_late_reply`: a cancelled second-panel action tests "was it sent" and withdraws
   its request in two separate locked sections (v1_control.py:119-121 and 130-133). If the
   worker claims it in between, the command is sent, nobody waits for its reply, and the session is not
   marked uncertain, against docs/intercom-beta1.md:67. `v1_allow_idle_timeouts` then stays set as well.

Two gaps of the local stream are stated as exceptions of `PredictionUnbroken` and not run:
`on_frame` is handed the raw packets of dependent pictures which the decoder has refused, after a decoding error or before the first keyframe
of a session (connect3/live.py:335-337), against connect3/live.py:332 and local_stream.py:386; and a packet above `MAX_CHUNK_BYTES` (1 MiB, where QV allows 4 MiB)
is left out without waiting for a keyframe (local_stream.py:381-383).

## Not modelled, and why

Packet formats, cryptography, codecs, diagnostics and wording are data that no property above
tells apart. The UDT handshake and the requests of the R002 investigation are one bounded request per connection; `Investigate` stands for all of them. Entities are
adapters without a state machine of their own. Of the dialogs, the switch of an R002 entry from discovery to manual mode, the
creation of an R002 entry, preferences of photos and languages, and the list of discovered devices are left out; the host of an
entry, checked for duplicates before the cloud account is asked for and not again (config_flow.py:860), may end up shared by two entries, which nothing
in the repository excludes. Of the clouds, the read of the call history. Of the local stream, audio. Of media conversion, fragments
of a Connect 2, JPEG images, audio and timestamps. Of the photo library, listing and thumbnails.

## Plan

1. The bookkeeping of the second panel's consumers (`legacy_channel.py`, `legacy_snapshot.py`), which are plain consumers of `MediaHub` here.
2. The hazards without a property: the session a Connect 2 command opens beside a media session that is not connected yet (control.py:281), the
   removal of a V1 entry whose last request fails (`__init__.py`:180), and the host that two dialogs may share (config_flow.py:860).
