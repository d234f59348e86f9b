---------------------------- MODULE LocalStream ----------------------------
(***************************************************************************)
(* The loopback stream of an intercom (local_stream.py, LocalVideoStream): *)
(* HTTP readers that share one encoder, for a source that delivers native  *)
(* H.264 packets.                                                          *)
(*                                                                         *)
(* A packet is what a picture decoder needs to know of it: whether it is a *)
(* keyframe, what became of the packet the source sent before it, and      *)
(* whether the decoder of the session (connect3/video.py) has taken it.    *)
(* Audio, which is mixed in and never holds video back, and the bytes of   *)
(* the transport stream are left out.                                      *)
(***************************************************************************)
EXTENDS Rtc

CONSTANTS
  MaxFrames,   \* MAX_VIDEO_FRAMES (4 in the code)
  MaxChunks,   \* MAX_PENDING_CHUNKS (8 in the code)
  MaxPackets   \* bound: packets the source sends in a behaviour

ASSUME StreamAssumption ==
  MaxFrames \in Nat \ {0} /\ MaxChunks \in Nat \ {0} /\ MaxPackets \in Nat

VARIABLES
  reader,    \* where each HTTP handler is in _serve and _cleanup_client
  acq,       \* where its acquisition task is
  queues,    \* self._queues
  waiting,   \* self._waiting_keys
  ending,    \* self._ending_queues: readers whose queue holds the end mark
  chunks,    \* how many chunks each queue holds
  shut,      \* close_clients or close: not called, under way, closed for good
  frames,    \* self._frames
  needKey,   \* self._source_keyframe_required
  enc,       \* where the encoder task is; none if self._encoder_task is None
  begun,     \* its container is open
  muxing,    \* the packet in its thread
  tail,      \* the source's last packet: here (last of frames, or muxed last), dropped
             \* from the queue, missed by the stream, or too large for it
  packets,   \* packets the source has sent
  decoding,  \* VideoDecoder._decoder is not None
  errors     \* VideoDecoder.errors

streamVars == <<reader, acq, queues, waiting, ending, chunks, shut, frames, needKey, enc,
                begun, muxing, tail, packets, decoding, errors>>
sourceVars == <<tail, packets, decoding, errors>>
decoderVars == <<packets, decoding, errors>>
hubKept == <<manager, sub, chan, offerVars, viewers, closing, link, talkVars, jobVars, pipeVars>>

Places == {"here", "dropped", "missed", "large"}
Packet == [key: BOOLEAN, after: Places, taken: BOOLEAN]
NoPacket == [key |-> FALSE, after |-> "missed", taken |-> FALSE]
MaxErrors == 3   \* decoding errors that end a session
Serving == {"opening", "idle", "work"}

StreamTypeOK ==
  /\ reader \in [Readers -> {"none", "header", "adding", "waiting", "body", "cleanup", "settle",
                             "encoder", "lease", "leaving", "gone"}]
  /\ acq \in [Readers -> {"off", "lock", "ready", "held", "giveup", "giving", "ended"}]
  /\ queues \subseteq Readers /\ waiting \subseteq queues /\ ending \subseteq queues
  /\ chunks \in [Readers -> 0..MaxChunks]
  /\ shut \in {"open", "clients", "closing", "closed"}
  /\ frames \in Seq(Packet) /\ Len(frames) <= MaxFrames
  /\ needKey \in BOOLEAN /\ begun \in BOOLEAN /\ tail \in Places
  /\ enc \in Serving \cup {"none", "ending", "done"}
  /\ muxing \in Packet
  /\ packets \in 0..MaxPackets
  /\ decoding \in BOOLEAN /\ errors \in 0..MaxErrors - 1

StreamInit ==
  /\ reader = [r \in Readers |-> "none"]
  /\ acq = [r \in Readers |-> "off"]
  /\ queues = {} /\ waiting = {} /\ ending = {}
  /\ chunks = [r \in Readers |-> 0]
  /\ shut = "open" /\ frames = <<>> /\ needKey = TRUE
  /\ enc = "none" /\ begun = FALSE /\ muxing = NoPacket /\ tail = "missed"
  /\ packets = 0 /\ decoding = FALSE /\ errors = 0

Go(r, l) == reader' = [reader EXCEPT ![r] = l]
AcqGo(r, l) == acq' = [acq EXCEPT ![r] = l]

\* _pipeline_lock is held across the join of the encoder.
PipelineLocked == \E r \in Readers : reader[r] = "encoder"

-----------------------------------------------------------------------------
(* A reader: _connected, _serve *)

\* How many handlers there are (at most MAX_CLIENTS) is left out: the readers
\* of the model are fewer.
Connects(r) ==
  /\ reader[r] = "none"
  /\ Go(r, IF shut = "open" /\ ~Stopped THEN "header" ELSE "gone")
  /\ UNCHANGED <<hubVars, hubKept, acq, queues, waiting, ending, chunks, shut, frames, needKey,
                 enc, begun, muxing, sourceVars, faults>>

\* The request line is read: the hub is asked for a lease before the encoder
\* is joined, so that a source about to lose its last reader keeps this one.
Requests(r) ==
  /\ reader[r] = "header"
  /\ Go(r, "adding") /\ AcqGo(r, "lock")
  /\ UNCHANGED <<hubVars, hubKept, queues, waiting, ending, chunks, shut, frames, needKey, enc,
                 begun, muxing, sourceVars, faults>>

\* hub.acquire of the reader, as a task of its own.
ReaderTakes(r) ==
  /\ acq[r] = "lock" /\ joining = None
  /\ IF AcquireRefused(1) THEN AcqGo(r, "ended") /\ UNCHANGED hubVars
     ELSE AcqGo(r, "ready") /\ Take(r, 1)
  /\ UNCHANGED <<hubKept, reader, queues, waiting, ending, chunks, shut, frames, needKey, enc,
                 begun, muxing, sourceVars, faults>>

ReaderReady(r) ==
  /\ acq[r] = "ready" /\ joining = None
  /\ \/ media = "live" /\ AcqGo(r, "held")
     \/ media = "none" /\ AcqGo(r, "giveup")
  /\ UNCHANGED <<hubVars, hubKept, reader, queues, waiting, ending, chunks, shut, frames,
                 needKey, enc, begun, muxing, sourceVars, faults>>

\* A lease that was not answered is given back by the acquisition itself.
ReaderGivesUp(r) ==
  /\ acq[r] = "giveup"
  /\ GiveBack(r)
  /\ AcqGo(r, IF Last(r) THEN "giving" ELSE "ended")
  /\ UNCHANGED <<hubKept, reader, queues, waiting, ending, chunks, shut, frames, needKey, enc,
                 begun, muxing, sourceVars, faults>>

ReaderGivenUp(r) ==
  /\ acq[r] = "giving" /\ joining # r
  /\ AcqGo(r, "ended")
  /\ UNCHANGED <<hubVars, hubKept, reader, queues, waiting, ending, chunks, shut, frames,
                 needKey, enc, begun, muxing, sourceVars, faults>>

\* _add_queue: the first reader starts the encoder, which begins at a keyframe.
AddQueue(r) ==
  /\ reader[r] = "adding" /\ ~PipelineLocked
  /\ IF shut # "open" \/ Stopped \/ enc = "done"
       THEN Go(r, "cleanup") /\ UNCHANGED <<queues, waiting, enc, begun, needKey>>
       ELSE /\ queues' = queues \cup {r} /\ waiting' = waiting \cup {r}
            /\ Go(r, "waiting")
            /\ IF enc = "none" THEN enc' = "opening" /\ begun' = FALSE /\ needKey' = TRUE
               ELSE UNCHANGED <<enc, begun, needKey>>
  /\ UNCHANGED <<hubVars, hubKept, acq, ending, chunks, shut, frames, muxing, sourceVars,
                 faults>>

Streams(r) ==
  /\ reader[r] = "waiting" /\ acq[r] \in {"held", "ended"}
  /\ Go(r, IF acq[r] = "held" THEN "body" ELSE "cleanup")
  /\ UNCHANGED <<hubVars, hubKept, acq, queues, waiting, ending, chunks, shut, frames, needKey,
                 enc, begun, muxing, sourceVars, faults>>

\* A chunk is written, or the end mark ends the body.
Writes(r) ==
  /\ reader[r] = "body"
  /\ \/ r \in ending /\ Go(r, "cleanup") /\ UNCHANGED chunks
     \/ chunks[r] > 0 /\ chunks' = [chunks EXCEPT ![r] = @ - 1] /\ UNCHANGED reader
  /\ UNCHANGED <<hubVars, hubKept, acq, queues, waiting, ending, shut, frames, needKey, enc,
                 begun, muxing, sourceVars, faults>>

\* The client disconnects, a write fails, or 5, 35 or 15 s pass.
Breaks(r) ==
  /\ reader[r] \in {"header", "adding", "waiting", "body"} /\ Fault
  /\ Go(r, IF reader[r] = "header" THEN "gone" ELSE "cleanup")
  /\ UNCHANGED <<hubVars, hubKept, acq, queues, waiting, ending, chunks, shut, frames, needKey,
                 enc, begun, muxing, sourceVars>>

-----------------------------------------------------------------------------
(* _cleanup_client *)

\* The acquisition is cancelled and joined.
CancelsAcquisition(r) ==
  /\ reader[r] = "cleanup"
  /\ Go(r, "settle")
  /\ AcqGo(r, CASE acq[r] = "lock" -> "ended" [] acq[r] = "ready" -> "giveup" [] OTHER -> acq[r])
  /\ UNCHANGED <<hubVars, hubKept, queues, waiting, ending, chunks, shut, frames, needKey, enc,
                 begun, muxing, sourceVars, faults>>

\* _remove_queue: the last reader stops the encoder, and holds _pipeline_lock
\* until it has ended.
RemoveQueue(r) ==
  /\ reader[r] = "settle" /\ acq[r] \in {"held", "ended"} /\ ~PipelineLocked
  /\ queues' = queues \ {r} /\ waiting' = waiting \ {r} /\ ending' = ending \ {r}
  /\ chunks' = [chunks EXCEPT ![r] = 0]
  /\ IF queues' = {} /\ enc # "none"
       THEN Go(r, "encoder") /\ enc' = IF enc \in Serving THEN "ending" ELSE enc
       ELSE Go(r, "lease") /\ UNCHANGED enc
  /\ UNCHANGED <<hubVars, hubKept, acq, shut, frames, needKey, begun, muxing, sourceVars,
                 faults>>

\* It has ended: what it left is dropped.
EncoderJoined(r) ==
  /\ reader[r] = "encoder" /\ enc = "done"
  /\ enc' = "none" /\ frames' = <<>> /\ tail' = "dropped"
  /\ Go(r, "lease")
  /\ UNCHANGED <<hubVars, hubKept, acq, queues, waiting, ending, chunks, shut, needKey, begun,
                 muxing, decoderVars, faults>>

ReaderReleases(r) ==
  /\ reader[r] = "lease"
  /\ GiveBack(r)
  /\ Go(r, IF Last(r) THEN "leaving" ELSE "gone")
  /\ UNCHANGED <<hubKept, acq, queues, waiting, ending, chunks, shut, frames, needKey, enc,
                 begun, muxing, sourceVars, faults>>

ReaderReleased(r) ==
  /\ reader[r] = "leaving" /\ joining # r
  /\ Go(r, "gone")
  /\ UNCHANGED <<hubVars, hubKept, acq, queues, waiting, ending, chunks, shut, frames, needKey,
                 enc, begun, muxing, sourceVars, faults>>

\* close_clients, for a change of source, or close, at the unload: every
\* handler is cancelled and goes through its cleanup.
StreamShuts ==
  /\ shut = "open"
  /\ \/ Stopped /\ shut' = "closing" /\ UNCHANGED faults
     \/ ~Stopped /\ Fault /\ shut' = "clients"
  /\ reader' = [r \in Readers |->
                  CASE reader[r] \in {"adding", "waiting", "body"} -> "cleanup"
                    [] reader[r] = "header" -> "gone"
                    [] OTHER -> reader[r]]
  /\ UNCHANGED <<hubVars, hubKept, acq, queues, waiting, ending, chunks, frames, needKey, enc,
                 begun, muxing, sourceVars>>

StreamShut ==
  /\ shut \in {"clients", "closing"} /\ \A r \in Readers : reader[r] \in {"none", "gone"}
  /\ shut' = IF shut = "closing" THEN "closed" ELSE "open"
  /\ UNCHANGED <<hubVars, hubKept, reader, acq, queues, waiting, ending, chunks, frames, needKey,
                 enc, begun, muxing, sourceVars, faults>>

-----------------------------------------------------------------------------
(* The source's packets and the encoder *)

\* The packet in front of the first of q is gone.
Severed(q) == IF q = <<>> THEN q ELSE [q EXCEPT ![1].after = "dropped"]

\* What a full queue leaves: nothing, until the source's next keyframe.
Kept == IF Len(frames) >= MaxFrames THEN <<>> ELSE frames

\* _video_packet.
Handed(key, taken) ==
  LET full == Len(frames) >= MaxFrames
      wait == needKey \/ full
  IN IF wait /\ ~key
       THEN frames' = Kept /\ needKey' = TRUE /\ tail' = "dropped"
       ELSE /\ frames' = Append(Kept, [key |-> key, taken |-> taken,
                                      after |-> IF full THEN "dropped" ELSE tail])
            /\ needKey' = FALSE /\ tail' = "here"

\* on_frame has somebody to hand a packet to.
Listened == ~Stopped /\ leases # {} /\ queues # {} /\ shut \notin {"closing", "closed"}

Delivers ==
  /\ media = "live" /\ joining = None
  /\ packets < MaxPackets /\ packets' = packets + 1

\* A picture of the session, which the decoder takes; but while there is no
\* decoder it drops what is no keyframe, without an error, and on_frame hands
\* that on too.  One above MAX_CHUNK_BYTES is ignored by _video_packet.
PacketArrives(key, large) ==
  /\ Delivers
  /\ decoding' = (decoding \/ key) /\ UNCHANGED errors
  /\ IF Listened /\ ~large THEN Handed(key, decoding')
     ELSE /\ tail' = IF Listened THEN "large" ELSE "missed"
          /\ UNCHANGED <<frames, needKey>>
  /\ UNCHANGED <<hubVars, hubKept, reader, acq, queues, waiting, ending, chunks, shut, enc,
                 begun, muxing, faults>>

\* The decoder finds it invalid: it starts again at a keyframe, or the third
\* time the session fails.
PacketRejected ==
  /\ Delivers
  /\ decoding' = FALSE /\ tail' = "missed"
  /\ \/ /\ errors + 1 < MaxErrors
        /\ errors' = errors + 1
        /\ UNCHANGED <<media, origin, posted>>
     \/ /\ errors + 1 = MaxErrors
        /\ errors' = 0 /\ media' = "none" /\ SessionEnds
  /\ UNCHANGED <<leases, active, joining, manager, sub, chan, offerVars, viewers, closing, link,
                 owner, gate, reply, cool, jobVars, pipeVars, reader, acq, queues, waiting,
                 ending, chunks, shut, frames, needKey, enc, begun, muxing, faults>>

\* A session of the hub comes with a decoder of its own.
SourceFollows ==
  /\ IF media = "live" /\ media' # "live"
       THEN decoding' = FALSE /\ errors' = 0 /\ tail' = "missed"
       ELSE UNCHANGED <<decoding, errors, tail>>
  /\ UNCHANGED <<reader, acq, queues, waiting, ending, chunks, shut, frames, needKey, enc, begun,
                 muxing, packets>>

EncoderOpens ==
  /\ enc = "opening"
  /\ enc' = "idle"
  /\ UNCHANGED <<hubVars, hubKept, reader, acq, queues, waiting, ending, chunks, shut, frames,
                 needKey, begun, muxing, sourceVars, faults>>

\* A packet goes to the encoder's thread.
Muxes ==
  /\ enc = "idle" /\ frames # <<>>
  /\ enc' = "work"
  /\ muxing' = Head(frames) /\ frames' = Tail(frames)
  /\ UNCHANGED <<hubVars, hubKept, reader, acq, queues, waiting, ending, chunks, shut, needKey,
                 begun, sourceVars, faults>>

\* (mutant: only the late packet itself is dropped)
DropsLateOnly ==
  /\ enc = "idle" /\ frames # <<>> /\ Fault
  /\ frames' = Severed(Tail(frames))
  /\ tail' = IF Len(frames) > 1 THEN tail ELSE "dropped"
  /\ UNCHANGED <<hubVars, hubKept, reader, acq, queues, waiting, ending, chunks, shut, needKey,
                 enc, begun, muxing, decoderVars>>

\* A packet older than MAX_INPUT_AGE takes the rest of its picture chain along.
DropsLate ==
  /\ enc = "idle" /\ frames # <<>> /\ Fault
  /\ frames' = <<>> /\ needKey' = TRUE /\ tail' = "dropped"
  /\ UNCHANGED <<hubVars, hubKept, reader, acq, queues, waiting, ending, chunks, shut, enc,
                 begun, muxing, decoderVars>>

\* remux: the container is begun by a keyframe, and a chunk begins with one when
\* its packet does.
Begun == begun \/ muxing.key

\* _publish: a new reader waits for a keyframe; a full queue is ended.
Publishes ==
  /\ enc = "work"
  /\ enc' = "idle" /\ muxing' = NoPacket
  /\ begun' = Begun
  /\ LET open == IF Begun THEN queues \ ending ELSE {}
         served == IF muxing.key THEN open ELSE open \ waiting
         slow == {r \in served : chunks[r] >= MaxChunks}
     IN /\ waiting' = waiting \ served
        /\ ending' = ending \cup slow
        /\ chunks' = [r \in Readers |-> IF r \in slow THEN 0
                                        ELSE IF r \in served THEN chunks[r] + 1 ELSE chunks[r]]
  /\ UNCHANGED <<hubVars, hubKept, reader, acq, queues, shut, frames, needKey, sourceVars,
                 faults>>

\* The encoder raises: every reader is told.
EncoderFails ==
  /\ enc \in {"opening", "work"} /\ Fault
  /\ enc' = "ending" /\ muxing' = NoPacket
  /\ ending' = queues /\ chunks' = [r \in Readers |-> 0]
  /\ UNCHANGED <<hubVars, hubKept, reader, acq, queues, waiting, shut, frames, needKey, begun,
                 sourceVars>>

\* _finish_encoder joins the thread and closes the container.
EncoderEnds ==
  /\ enc = "ending"
  /\ enc' = "done" /\ muxing' = NoPacket
  /\ UNCHANGED <<hubVars, hubKept, reader, acq, queues, waiting, ending, chunks, shut, frames,
                 needKey, begun, sourceVars, faults>>

ReaderStep(r) ==
  \/ Connects(r) \/ Requests(r) \/ AddQueue(r) \/ Streams(r) \/ Writes(r) \/ Breaks(r)
  \/ ReaderTakes(r) \/ ReaderReady(r) \/ ReaderGivesUp(r) \/ ReaderGivenUp(r)
  \/ CancelsAcquisition(r) \/ RemoveQueue(r) \/ EncoderJoined(r)
  \/ ReaderReleases(r) \/ ReaderReleased(r)

StreamNext ==
  \/ \E r \in Readers : ReaderStep(r)
  \/ \E key, large \in BOOLEAN : PacketArrives(key, large)
  \/ PacketRejected
  \/ EncoderOpens \/ Muxes \/ DropsLate \/ Publishes \/ EncoderFails \/ EncoderEnds
  \/ StreamShuts \/ StreamShut

-----------------------------------------------------------------------------
(* What makes the invariants of Viewers.tla inductive *)

\* A reader has a lease from its acquisition on, which is over, with its
\* result known, before the handler comes to give the lease back.
ReaderLeases ==
  \A r \in Readers :
    /\ reader[r] \in {"none", "header"} => acq[r] = "off"
    /\ acq[r] = "off" => r \notin leases
    /\ reader[r] \in {"encoder", "lease"} => acq[r] \in {"held", "ended"}
    /\ reader[r] \in {"leaving", "gone"} =>
         r \notin leases /\ acq[r] \in {"off", "held", "ended"}

\* There is an encoder as long as there is a queue, or somebody to join it.
EncoderServes ==
  /\ enc = "none" => queues = {}
  /\ enc # "none" /\ queues = {} => PipelineLocked
  /\ \A r \in Readers : reader[r] = "encoder" =>
       /\ queues = {} /\ enc \in {"ending", "done"}
       /\ \A q \in Readers : reader[q] = "encoder" => q = r

\* A live session that nobody joins has a lease to live for.
SourceLeased ==
  media \in {"starting", "live"} => leases # {} \/ joining # None

\* A packet whose picture can be shown after the packets before it.
Follows(p) == p.key \/ (p.after # "dropped" /\ (p.taken => p.after # "missed"))

\* on_frame hands over nothing, and never again before an encoder starts.
Deaf == Stopped \/ queues = {} \/ shut \in {"closing", "closed"}

\* What is queued follows, and so will the next packet, unless the stream waits
\* for a keyframe.
Chain ==
  /\ \A i \in DOMAIN frames : Follows(frames[i])
  /\ Follows(muxing)
  /\ needKey \/ Deaf \/ (tail # "dropped" /\ (decoding => tail # "missed"))
=============================================================================
