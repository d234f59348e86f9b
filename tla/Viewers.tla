------------------------------ MODULE Viewers ------------------------------
(***************************************************************************)
(* Everything that watches an intercom: browser pages and the card over    *)
(* WebRTC, and the HTTP readers of the local stream, on one media hub, and *)
(* the pictures they are shown.                                            *)
(*                                                                         *)
(* They meet only in the leases of the hub and in its microphone, so a     *)
(* behaviour has one cast, chosen at the start: the card with the sessions *)
(* it opens one after the other; pages of several browsers, already        *)
(* connected, with their microphones; readers; or the worker of a V1 or    *)
(* Connect 2 with its pictures.                                            *)
(***************************************************************************)
EXTENDS Card, LocalStream, Pictures

CONSTANTS Casts   \* the casts to consider

ASSUME CastsAssumption == Casts \subseteq {"card", "pages", "readers", "pictures"}

VARIABLES cast

vars == <<rtcVars, cardVars, streamVars, pictureVars, cast>>

Init ==
  /\ cast \in Casts
  /\ IF cast = "pages"
       THEN \E ch \in Channels : RtcInit(Sessions, ch) /\ CardInit(Sessions)
       ELSE RtcInit({}, 1) /\ CardInit({})
  /\ StreamInit /\ NoSession

Next ==
  /\ UNCHANGED cast
  /\ \/ /\ cast # "pictures" /\ UNCHANGED pictureVars
        /\ \/ RtcNext /\ SourceFollows /\ UNCHANGED cardVars
           \/ cast = "card" /\ CardNext /\ UNCHANGED streamVars
           \/ cast = "pages" /\ PageNext /\ UNCHANGED streamVars
           \/ cast = "readers" /\ StreamNext /\ UNCHANGED cardVars
     \/ cast = "pictures" /\ PicturesNext /\ UNCHANGED <<rtcVars, cardVars, streamVars>>

Spec == Init /\ [][Next]_vars

TypeOK == RtcTypeOK /\ CardTypeOK /\ StreamTypeOK /\ PicturesTypeOK

-----------------------------------------------------------------------------
(* Properties *)

\* A task of the integration still answers for session s.
InCharge(s) == s \in viewers \/ offer[s] \in Running \/ closing[s] \in CloseRunning

\* No lease outlives whoever would return it: a viewer that is gone while
\* hub.acquire waits, a reader that leaves while its acquisition runs, an
\* offer cancelled by the unload, each give theirs back.
LeaseReturned ==
  /\ \A s \in Sessions : s \in leases => InCharge(s)
  /\ \A r \in Readers : r \in leases => reader[r] \notin {"none", "header", "gone"}

\* The device hears a page only while its microphone is shown on or pending:
\* otherwise a command that stops it is on its way, or the connection is lost
\* and the integration has not noticed yet, or the cleanup of the viewer, which
\* closes the gate first, is the next thing to run.
MicFollowsUser ==
  \A s \in Sessions : gate /\ owner = s =>
    \/ closing[s] = "mic"
    \/ /\ closing[s] = "none"
       /\ \/ mic[s].st \in {"pending", "on"}
          \/ \E i \in DOMAIN wire[s] : ~wire[s][i].on
          \/ link[s] = "broken"

\* The card presses an output of the other entry only when nothing of its own
\* viewers is left in the integration and the user still looks at it.
Presses == out # "press" /\ out' = "press"

PressAfterRelease ==
  [][Presses /\ outTo # sel =>
       /\ visible
       /\ \A s \in Sessions : s \notin leases /\ ~InCharge(s)]_vars

\* No picture is muxed whose reference the integration has dropped.  In the
\* local stream that is a packet which the stream has dropped, and for a picture
\* that the decoder took also one that never came; what on_frame hands over
\* behind the decoder's back, and a packet that is too large, are excepted.
\* On the way of a V1 or Connect 2 see DependsOnShown and IdrSuffices.
PredictionUnbroken ==
  /\ enc = "work" /\ begun /\ ~muxing.key =>
       /\ muxing.after # "dropped"
       /\ muxing.taken => muxing.after # "missed"
  /\ DependsOnShown
  /\ IdrSuffices

-----------------------------------------------------------------------------
(* What makes the invariants inductive *)

PlacesOK == RtcPlacesOK /\ CardPlacesOK

\* A lease of a session belongs to its offer until that has answered, and to
\* its viewer until the cleanup comes to hub.release.
SessionLeases ==
  \A s \in Sessions : s \in leases =>
    \/ offer[s] \in {"ready", "late", "giveup"}
    \/ s \in viewers
    \/ closing[s] \in {"mic", "jobs", "talk", "lease"}

\* A session is offered once and becomes a viewer once: what a subscription has
\* ended is over.
SubsOnce ==
  \A s \in Sessions :
    /\ sub[s] \in {"none", "sent", "lost"} <=> offer[s] = "none"
    /\ offer[s] \in {"none", "created"} => s \notin viewers /\ closing[s] = "none"
    /\ sub[s] \in {"gather", "close", "done", "failed"} => offer[s] # "created"
    /\ sub[s] \in {"close", "done", "failed"} => offer[s] = "done" /\ s \notin viewers
    /\ sub[s] = "close" => closing[s] # "none"
    /\ sub[s] = "done" => closing[s] \in {"none", "done"}

\* What its page knows of it: nothing was offered, or the release is under way,
\* or the cleanup has ended.
PagesOnce ==
  \A s \in Sessions :
    /\ page[s] \in {"unused", "peer"} => sub[s] = "none" /\ released[s] = "no"
    /\ page[s] = "left" /\ released[s] = "no" => sub[s] = "none"
    /\ released[s] = "ok" => sub[s] = "done"

\* The card has one session at a time.
OneSession ==
  /\ opening \in {"closing", "settings"} => cur = None
  /\ opening = "ice" => cur # None /\ page[cur] = "peer"
  /\ cast = "card" => \A s \in Sessions : page[s] \in {"peer", "offered"} => s = cur

\* An output that is still to be pressed on the other entry keeps the card from
\* opening anything.
PressReady ==
  /\ out # "off" => switch = "off" /\ cast = "card"
  /\ out \in {"closing", "settle", "settings"} /\ outOk /\ outTo # sel =>
       /\ cur = None /\ opening = "off" /\ ~hls /\ fall = "off"
       /\ out = "settings" => Settled /\ AllReleased

LeaseIInv ==
  PlacesOK /\ SessionLeases /\ SubsOnce /\ PagesOnce /\ OneSession /\ PressReady

StreamPlacesOK ==
  /\ reader \in [Readers -> {"none", "header", "adding", "waiting", "body", "cleanup", "settle",
                             "encoder", "lease", "leaving", "gone"}]
  /\ acq \in [Readers -> {"off", "lock", "ready", "held", "giveup", "giving", "ended"}]
  /\ queues \subseteq Readers /\ enc \in Serving \cup {"none", "ending", "done"}
  /\ frames \in Seq(Packet)
  /\ muxing \in Packet
  /\ decoding \in BOOLEAN /\ needKey \in BOOLEAN /\ tail \in Places

StreamIInv == StreamPlacesOK /\ ReaderLeases /\ EncoderServes /\ SourceLeased /\ Chain

IInv == LeaseIInv /\ StreamIInv /\ PicturesIInv

Wants(s) == mic[s].st \in {"pending", "on"}

\* Commands are numbered in the order they are sent, and answers and jobs carry
\* the number of a command that has arrived.
Numbers(s) ==
  /\ mic[s].st # "off" => mic[s].id < MaxMic
  /\ link[s] = "new" => mic[s].st = "off" /\ wire[s] = <<>>
  /\ micId[s] <= mic[s].id
  /\ mic[s].st = "asking" => micId[s] < mic[s].id
  /\ \A i \in DOMAIN wire[s] :
       /\ micId[s] < wire[s][i].id /\ wire[s][i].id <= mic[s].id
       /\ mic[s].st = "asking" => wire[s][i].id < mic[s].id
       /\ \A j \in DOMAIN wire[s] : i < j => wire[s][i].id < wire[s][j].id
  /\ \A i \in DOMAIN mail[s] : mail[s][i].id <= micId[s]
  /\ \A k \in Ids : job[s][k] # "none" => k <= micId[s]

\* A page does not ask for the microphone twice, and does not think better of it
\* without another command, unless it is cut off.
Commands(s) ==
  /\ \A i \in DOMAIN wire[s] : i < Len(wire[s]) /\ wire[s][i].on => ~wire[s][i + 1].on
  /\ link[s] # "broken" /\ wire[s] # <<>> /\ wire[s][Len(wire[s])].on =>
       Wants(s) /\ mic[s].id = wire[s][Len(wire[s])].id

\* The next command of the page is a stop; or, if none is on its way, the page
\* wants what the last one asked for and has not been refused it, or is cut off.
Agreed(s) ==
  /\ wire[s] # <<>> => ~wire[s][1].on
  /\ wire[s] = <<>> /\ link[s] # "broken" =>
       /\ Wants(s) /\ mic[s].id = micId[s]
       /\ \A i \in DOMAIN mail[s] : mail[s][i].id = micId[s] => mail[s][i].on

\* The device hears the page, or will when it has accepted.
Live(s) ==
  /\ closing[s] = "none"
  /\ (gate /\ owner = s) \/ job[s][micId[s]] \in {"send", "wait"}

\* The holder of talkback.lock is one job, of the owner unless the session has
\* ended; an owner that is heard has nothing else to wait for.
Holder ==
  /\ \A s, t \in Sessions, j, k \in Ids :
       job[s][j] \in Locked /\ job[t][k] \in Locked => s = t /\ j = k
  /\ \A s \in Sessions, k \in Ids : job[s][k] \in Locked => owner \in {s, None}
  /\ gate \/ origin = "current" => owner # None
  /\ posted > 0 => media # "live"
  /\ \A s \in Sessions : gate /\ owner = s => job[s][micId[s]] = "none"

\* What the cleanup of a viewer has cancelled.
Silenced ==
  \A s \in Sessions :
    /\ s \in viewers => closing[s] = "none"
    /\ closing[s] \notin {"none", "mic"} =>
         /\ ~(gate /\ owner = s)
         /\ \A k \in Ids : job[s][k] \notin {"lock", "send", "wait", "stop"}

\* Who waits for a free lock finds the microphone taken, at rest or without a
\* session, unless it is the only one and its command has just arrived.
Startable == owner = None /\ ~cool /\ media = "live" /\ joining = None

Turns == ~TalkLocked /\ Startable =>
  /\ \A v, w \in Waiting : v = w
  /\ \A s \in Sessions, k \in Ids : <<s, k>> \in Waiting =>
       k = micId[s] /\ (job[s][k] = "lock" => Agreed(s))

MicIInv ==
  /\ RtcTypeOK /\ CardTypeOK
  /\ \A s \in Sessions : Numbers(s) /\ Commands(s) /\ (Live(s) => Agreed(s))
  /\ Holder /\ Silenced /\ Turns
=============================================================================
