-------------------------------- MODULE Card --------------------------------
(***************************************************************************)
(* The browser's side of a viewer: frontend/welcomeeye-card.js.            *)
(*                                                                         *)
(* A page offers a session to a camera, switches its microphone and leaves *)
(* the session; leaving asks player_stop and waits for its answer.  The    *)
(* card does this for one camera at a time, through tasks that outlive the *)
(* click that began them: opening, changing the entry, pressing an output, *)
(* falling back to Home Assistant's player.  Each of them captures         *)
(* _generation and gives up when _close or _open has moved it on; what the *)
(* model keeps is whether the capture still holds.                         *)
(***************************************************************************)
EXTENDS Rtc

CONSTANTS MaxClicks   \* bound: what the user of the card does in a behaviour

ASSUME CardAssumption == MaxClicks \in Nat

VARIABLES
  page,      \* each session in its page: unused, being prepared, offered, left
  mic,       \* its microphone: off, asking, pending or on, and _micId
  released,  \* _releaseRequest: not called, awaiting the token, player_stop, result
  cur,       \* the session of _pc and _viewerRequest
  sel,       \* the channel of _entity()
  known,     \* _settingsEntity is _entity()
  visible,   \* the card is connected and the document is not hidden
  opening,   \* where _open is
  out,       \* where _output is (_outputBusy)
  outTo,     \* the channel of its target
  outOk,     \* its generation is current and the stop it awaits acknowledged
  switch,    \* where _selectChannel is (_switching)
  switchOk,  \* its generation is current and the player it closed was not HLS
  reopen,    \* it reopens the video
  fall,      \* where _fallback is (_fallbackPending)
  hls,       \* Home Assistant's player shows the stream (_hls)
  clicks

taskVars == <<opening, out, outTo, outOk, switch, switchOk, reopen, fall, hls>>
seenVars == <<sel, known, visible>>
pageVars == <<page, mic, released>>
cardVars == <<pageVars, cur, seenVars, taskVars, clicks>>
serverVars == <<hubVars, manager, offerVars, viewers, closing, talkVars, jobVars, faults>>

Mics == [st: {"off", "asking", "pending", "on"}, id: Ids]

\* Where every session and every task of the card is.
CardPlacesOK ==
  /\ page \in [Sessions -> {"unused", "peer", "offered", "left"}]
  /\ released \in [Sessions -> {"no", "token", "stop", "ok", "failed"}]
  /\ cur \in Sessions \cup {None}
  /\ sel \in Channels /\ outTo \in Channels
  /\ known \in BOOLEAN /\ visible \in BOOLEAN /\ outOk \in BOOLEAN
  /\ switchOk \in BOOLEAN /\ reopen \in BOOLEAN /\ hls \in BOOLEAN
  /\ opening \in {"off", "closing", "settings", "ice", "ready"}
  /\ out \in {"off", "closing", "settings", "settle", "press"}
  /\ switch \in {"off", "closing", "opening"}
  /\ fall \in {"off", "closing", "loading"}

CardTypeOK == CardPlacesOK /\ mic \in [Sessions -> Mics] /\ clicks \in 0..MaxClicks

\* The sessions of S are offered already.
CardInit(S) ==
  /\ page = [s \in Sessions |-> IF s \in S THEN "offered" ELSE "unused"]
  /\ mic = [s \in Sessions |-> [st |-> "off", id |-> 0]]
  /\ released = [s \in Sessions |-> "no"]
  /\ cur = None /\ sel = 1 /\ known = TRUE /\ visible = TRUE
  /\ opening = "off" /\ out = "off" /\ outTo = 1 /\ outOk = FALSE
  /\ switch = "off" /\ switchOk = FALSE /\ reopen = FALSE
  /\ fall = "off" /\ hls = FALSE /\ clicks = 0

Click == clicks < MaxClicks /\ clicks' = clicks + 1

-----------------------------------------------------------------------------
(* The microphone of a page *)

\* _stopMicrophone: the request is out of date from here on, the answers in
\* flight too, and the integration is told while the data channel is open.
MicOff(s) == [st |-> "off", id |-> mic[s].id + 1]

Told(s) == IF mic[s].st # "off" /\ link[s] = "up"
             THEN Append(wire[s], [id |-> mic[s].id + 1, on |-> FALSE]) ELSE wire[s]

MicStops(s) ==
  /\ mic' = [mic EXCEPT ![s] = MicOff(s)]
  /\ wire' = [wire EXCEPT ![s] = Told(s)]
  /\ mail' = [mail EXCEPT ![s] = <<>>]
  /\ UNCHANGED <<serverVars, sub, chan, link, page, released, cur, seenVars, taskVars>>

\* _toggleMicrophone: cancels what is asked or on, or asks the browser.
MicToggle(s) ==
  /\ page[s] = "offered" /\ link[s] = "up" /\ Click
  /\ \/ mic[s].st # "off" /\ MicStops(s)
     \/ /\ mic[s].st = "off" /\ mic[s].id + 2 <= MaxMic
        /\ mic' = [mic EXCEPT ![s] = [st |-> "asking", id |-> mic[s].id + 1]]
        /\ mail' = [mail EXCEPT ![s] = <<>>]
        /\ UNCHANGED <<serverVars, sub, chan, link, wire, page, released, cur, seenVars,
                       taskVars>>

\* getUserMedia resolves, the track is attached and the command is sent.
MicGranted(s) ==
  /\ mic[s].st = "asking" /\ link[s] = "up"
  /\ mic' = [mic EXCEPT ![s].st = "pending"]
  /\ wire' = [wire EXCEPT ![s] = Append(@, [id |-> mic[s].id, on |-> TRUE])]
  /\ UNCHANGED <<serverVars, sub, chan, link, mail, page, released, cur, seenVars, taskVars,
                 clicks>>

\* The 7 s of _micTimeout.
MicTimeout(s) ==
  /\ mic[s].st = "pending" /\ Click
  /\ MicStops(s)

\* dc.onmessage: only the answer to the latest request counts; a refusal stops
\* the microphone without telling the integration.
MailArrives(s) ==
  /\ mail[s] # <<>>
  /\ mail' = [mail EXCEPT ![s] = Tail(@)]
  /\ LET m == Head(mail[s]) IN
     mic' = IF mic[s].st = "off" \/ m.id # mic[s].id THEN mic
            ELSE [mic EXCEPT ![s] = IF m.on THEN [@ EXCEPT !.st = "on"] ELSE MicOff(s)]
  /\ UNCHANGED <<serverVars, sub, chan, link, wire, page, released, cur, seenVars, taskVars,
                 clicks>>

\* dc.onclose.
MicCut(s) ==
  /\ page[s] = "offered" /\ link[s] = "broken" /\ mic[s].st # "off"
  /\ mic' = [mic EXCEPT ![s] = MicOff(s)]
  /\ UNCHANGED <<serverVars, sub, chan, link, pipeVars, page, released, cur, seenVars,
                 taskVars, clicks>>

-----------------------------------------------------------------------------
(* Leaving a session *)

\* What _close does to the sessions of S: the microphone stops, the peer
\* closes, and the release of what was offered begins.
Leave(S) ==
  /\ mic' = [s \in Sessions |-> IF s \in S /\ mic[s].st # "off" THEN MicOff(s) ELSE mic[s]]
  /\ wire' = [s \in Sessions |-> IF s \in S THEN Told(s) ELSE wire[s]]
  /\ mail' = [s \in Sessions |-> IF s \in S THEN <<>> ELSE mail[s]]
  /\ link' = [s \in Sessions |-> IF s \in S THEN "broken" ELSE link[s]]
  /\ page' = [s \in Sessions |-> IF s \in S THEN "left" ELSE page[s]]
  /\ released' = [s \in Sessions |->
                    IF s \in S /\ page[s] = "offered" THEN "token" ELSE released[s]]

\* _releaseRequest has the token: it calls player_stop.
ReleaseAsks(s) ==
  /\ released[s] = "token" /\ sub[s] \notin {"none", "sent", "lost"}
  /\ released' = [released EXCEPT ![s] = "stop"]
  /\ sub' = CleanupOf({s})
  /\ UNCHANGED <<serverVars, chan, link, pipeVars, page, mic, cur, seenVars, taskVars, clicks>>

\* player_stop answers once the cleanup has ended.
ReleaseAnswered(s) ==
  /\ released[s] = "stop" /\ sub[s] \in {"done", "failed"}
  /\ released' = [released EXCEPT ![s] = IF sub[s] = "done" THEN "ok" ELSE "failed"]
  /\ UNCHANGED <<serverVars, sub, chan, link, pipeVars, page, mic, cur, seenVars, taskVars,
                 clicks>>

\* 30 s without an answer, or a subscription that was never made; the page
\* unsubscribes what it has.
ReleaseFails(s) ==
  /\ released[s] \in {"token", "stop"}
  /\ \/ faults < MaxFaults /\ faults' = faults + 1
     \/ sub[s] = "lost" /\ UNCHANGED faults
  /\ released' = [released EXCEPT ![s] = "failed"]
  /\ sub' = CleanupOf({s})
  /\ UNCHANGED <<hubVars, manager, offerVars, viewers, closing, talkVars, jobVars, chan, link,
                 pipeVars, page, mic, cur, seenVars, taskVars, clicks>>

\* The WebSocket of the page is lost: its subscriptions end, its offers are
\* not replayed, and what awaits an answer fails.
SocketLost(S) ==
  /\ \E s \in S : page[s] = "offered" \/ released[s] \in {"token", "stop"}
  /\ Fault
  /\ sub' = [s \in Sessions |-> IF s \in S /\ sub[s] = "sent" THEN "lost"
                                ELSE CleanupOf(S)[s]]
  /\ released' = [s \in Sessions |-> IF s \in S /\ released[s] \in {"token", "stop"}
                                       THEN "failed" ELSE released[s]]
  /\ UNCHANGED <<hubVars, manager, offerVars, viewers, closing, talkVars, jobVars, chan, link,
                 pipeVars, page, mic, cur, seenVars, taskVars, clicks>>

-----------------------------------------------------------------------------
(* A page of its own: any browser with one viewer.  What becomes of its       *)
(* player_stop matters to the card alone, that has more than one entry.       *)

PageLeaves(s) ==
  /\ page[s] = "offered" /\ Click
  /\ Leave({s})
  /\ UNCHANGED <<serverVars, sub, chan, cur, seenVars, taskVars>>

PageNext ==
  \E s \in Sessions :
       \/ PageLeaves(s) \/ ReleaseAsks(s) \/ SocketLost({s})
       \/ MicToggle(s) \/ MicGranted(s) \/ MicTimeout(s) \/ MailArrives(s) \/ MicCut(s)

-----------------------------------------------------------------------------
(* The card: _close and _open *)

Other(ch) == 3 - ch
Mine == {cur} \ {None}
Busy == cur # None \/ opening # "off" \/ hls \/ fall # "off"

\* _closePromise: the releases begun so far, all of them.
Settled == \A s \in Sessions : released[s] \notin {"token", "stop"}
AllReleased == \A s \in Sessions : released[s] # "failed"

\* _close: whatever was under way is out of date, except the task that calls it.
Shut(o, w, f) ==
  /\ Leave(Mine)
  /\ cur' = None
  /\ opening' = "off" /\ hls' = FALSE
  /\ outOk' = o /\ switchOk' = w /\ fall' = f

Closed == Shut(FALSE, FALSE, "off") /\ UNCHANGED <<out, outTo, switch, reopen, seenVars>>

\* The user, the timer of auto_close or leaving the page closes the video.
CardCloses ==
  /\ Busy /\ Click
  /\ Closed
  /\ UNCHANGED <<serverVars, sub, chan>>

\* The document is hidden or the card removed; and shown again.
CardHides ==
  /\ visible /\ Click
  /\ visible' = FALSE
  /\ Shut(FALSE, FALSE, "off")
  /\ UNCHANGED <<serverVars, sub, chan, out, outTo, switch, reopen, sel, known>>

CardShows ==
  /\ ~visible
  /\ visible' = TRUE
  /\ UNCHANGED <<serverVars, sub, chan, link, pipeVars, pageVars, cur, sel, known, taskVars,
                 clicks>>

\* _refreshSettings ends in _applySettings.
CardRefreshes ==
  /\ ~known /\ visible
  /\ known' = TRUE
  /\ UNCHANGED <<serverVars, sub, chan, link, pipeVars, pageVars, cur, sel, visible, taskVars,
                 clicks>>

Openable == ~Busy /\ out = "off" /\ visible

CardOpens ==
  /\ Openable /\ Click
  /\ opening' = "closing"
  /\ outOk' = FALSE /\ switchOk' = FALSE
  /\ UNCHANGED <<serverVars, sub, chan, link, pipeVars, pageVars, cur, seenVars, out, outTo,
                 switch, reopen, fall, hls>>

\* It waits for the releases begun before it and gives up if one failed.
OpenClosed ==
  /\ opening = "closing" /\ Settled
  /\ IF AllReleased
       THEN /\ opening' = "settings"
            /\ UNCHANGED <<link, pipeVars, pageVars, cur, outOk, switchOk, fall, hls>>
       ELSE Shut(FALSE, FALSE, "off")
  /\ UNCHANGED <<serverVars, sub, chan, seenVars, out, outTo, switch, reopen, clicks>>

\* The settings arrive and a peer connection is made.
OpenPeer(s) ==
  /\ opening = "settings" /\ page[s] = "unused"
  /\ opening' = "ice" /\ cur' = s /\ known' = TRUE
  /\ page' = [page EXCEPT ![s] = "peer"]
  /\ UNCHANGED <<serverVars, sub, chan, link, pipeVars, mic, released, sel, visible, out, outTo,
                 outOk, switch, switchOk, reopen, fall, hls, clicks>>

\* ICE gathering is over: the offer is sent, once.
OpenOffers ==
  /\ opening = "ice"
  /\ opening' = "ready"
  /\ page' = [page EXCEPT ![cur] = "offered"]
  /\ sub' = [sub EXCEPT ![cur] = "sent"]
  /\ chan' = [chan EXCEPT ![cur] = sel]
  /\ UNCHANGED <<serverVars, link, pipeVars, mic, released, cur, seenVars, out, outTo, outOk,
                 switch, switchOk, reopen, fall, hls, clicks>>

OpenEnds ==
  /\ opening = "ready" /\ sub[cur] \notin {"sent", "lost"}
  /\ opening' = "off"
  /\ UNCHANGED <<serverVars, sub, chan, link, pipeVars, pageVars, cur, seenVars, out, outTo,
                 outOk, switch, switchOk, reopen, fall, hls, clicks>>

\* The settings do not come in 5 s, the subscription fails, the integration
\* reports an error, or the peer is closed.
OpenFails ==
  /\ \/ opening \in {"settings", "ice"} /\ faults < MaxFaults /\ faults' = faults + 1
     \/ /\ cur # None /\ UNCHANGED faults
        /\ sub[cur] = "lost" \/ told[cur] = "error" \/ link[cur] = "broken"
  /\ Closed
  /\ UNCHANGED <<hubVars, manager, offerVars, viewers, closing, talkVars, jobVars, sub, chan,
                 clicks>>

-----------------------------------------------------------------------------
(* _fallback *)

\* The connection fails, or 45 s pass without one, or the browser has no
\* WebRTC: the viewer is closed before Home Assistant's player is used.
FallsBack ==
  /\ fall = "off"
  /\ \/ cur # None /\ link[cur] = "broken" /\ UNCHANGED faults
     \/ /\ opening = "settings" \/ (cur # None /\ link[cur] = "new")
        /\ faults < MaxFaults /\ faults' = faults + 1
  /\ Shut(FALSE, FALSE, "closing")
  /\ UNCHANGED <<hubVars, manager, offerVars, viewers, closing, talkVars, jobVars, sub, chan,
                 out, outTo, switch, reopen, seenVars, clicks>>

FallbackClosed ==
  /\ fall = "closing" /\ Settled
  /\ IF AllReleased
       THEN /\ fall' = "loading"
            /\ UNCHANGED <<link, pipeVars, pageVars, cur, opening, outOk, switchOk, hls>>
       ELSE Shut(FALSE, FALSE, "off")
  /\ UNCHANGED <<serverVars, sub, chan, seenVars, out, outTo, switch, reopen, clicks>>

FallbackLoads ==
  /\ fall = "loading"
  /\ fall' = "off" /\ hls' = TRUE
  /\ UNCHANGED <<serverVars, sub, chan, link, pipeVars, pageVars, cur, seenVars, opening, out,
                 outTo, outOk, switch, switchOk, reopen, clicks>>

-----------------------------------------------------------------------------
(* _selectChannel *)

CardSelects ==
  /\ known /\ switch = "off" /\ out = "off" /\ Click
  /\ Shut(FALSE, ~hls, "off")
  /\ switch' = "closing" /\ reopen' = Busy
  /\ UNCHANGED <<serverVars, sub, chan, out, outTo, seenVars>>

\* The other entry is selected only once the stop is acknowledged; the video
\* reopens if it was open.
SelectClosed ==
  /\ switch = "closing" /\ Settled
  /\ IF AllReleased /\ switchOk
       THEN /\ sel' = Other(sel) /\ known' = FALSE
            /\ IF reopen /\ Openable
                 THEN switch' = "opening" /\ opening' = "closing" /\ outOk' = FALSE
                 ELSE switch' = "off" /\ UNCHANGED <<opening, outOk>>
       ELSE switch' = "off" /\ UNCHANGED <<sel, known, opening, outOk>>
  /\ switchOk' = FALSE
  /\ UNCHANGED <<serverVars, sub, chan, link, pipeVars, pageVars, cur, visible, out, outTo,
                 reopen, fall, hls, clicks>>

SelectEnds ==
  /\ switch = "opening" /\ opening = "off"
  /\ switch' = "off"
  /\ UNCHANGED <<serverVars, sub, chan, link, pipeVars, pageVars, cur, seenVars, opening, out,
                 outTo, outOk, switchOk, reopen, fall, hls, clicks>>

-----------------------------------------------------------------------------
(* _output *)

\* Only a session that was offered can have its stop acknowledged.
Acknowledged == cur # None /\ page[cur] = "offered" /\ ~hls /\ fall = "off"

\* A click on an output of channel ch: a viewer of the other channel is closed
\* first, else the releases begun earlier are awaited.
OutputClicked(ch) ==
  /\ known /\ visible /\ out = "off" /\ switch = "off" /\ Click
  /\ outTo' = ch
  /\ IF ch # sel /\ Busy
       THEN out' = "closing" /\ Shut(Acknowledged, FALSE, "off")
       ELSE /\ out' = "settle" /\ outOk' = TRUE
            /\ UNCHANGED <<link, pipeVars, pageVars, cur, opening, switchOk, fall, hls>>
  /\ UNCHANGED <<serverVars, sub, chan, seenVars, switch, reopen>>

\* The video of the other channel is gone for certain, or nothing is pressed.
OutputContinues ==
  /\ out = "closing" /\ Settled
  /\ out' = IF AllReleased /\ outOk /\ visible THEN "settings" ELSE "off"
  /\ UNCHANGED <<serverVars, sub, chan, link, pipeVars, pageVars, cur, seenVars, opening, outTo,
                 outOk, switch, switchOk, reopen, fall, hls, clicks>>

\* The targets are read again, or were not to be; the button is pressed, once,
\* unless something happened in between or the target is gone.
OutputPresses ==
  /\ \/ out = "settings"
     \/ out = "settle" /\ Settled
  /\ \/ /\ AllReleased \/ out = "settings"
        /\ outOk /\ visible
        /\ out' = "press"
     \/ out' = "off"
  /\ UNCHANGED <<serverVars, sub, chan, link, pipeVars, pageVars, cur, seenVars, opening, outTo,
                 outOk, switch, switchOk, reopen, fall, hls, clicks>>

OutputEnds ==
  /\ out = "press"
  /\ out' = "off"
  /\ UNCHANGED <<serverVars, sub, chan, link, pipeVars, pageVars, cur, seenVars, opening, outTo,
                 outOk, switch, switchOk, reopen, fall, hls, clicks>>

CardNext ==
  \/ CardOpens \/ OpenClosed \/ OpenOffers \/ OpenEnds \/ OpenFails
  \/ \E s \in Sessions : OpenPeer(s)
  \/ CardCloses \/ CardHides \/ CardShows \/ CardRefreshes
  \/ FallsBack \/ FallbackClosed \/ FallbackLoads
  \/ CardSelects \/ SelectClosed \/ SelectEnds
  \/ \E ch \in Channels : OutputClicked(ch)
  \/ OutputContinues \/ OutputPresses \/ OutputEnds
  \/ SocketLost(Sessions)
  \/ \E s \in Sessions :
       ReleaseAsks(s) \/ ReleaseAnswered(s) \/ ReleaseFails(s)
=============================================================================
